---- MODULE Spec2Model ----
(***************************************************************************)
(* Verification model of the PlayHub client library:                       *)
(*   - runWithBoundedConcurrency / fetchAllEventStandings  (src/api.ts)    *)
(*   - createTtlCache                                      (src/ttlCache.ts)*)
(*   - getEventStandings               (src/api.ts, src/bot/playhub.ts)    *)
(*   - validateDateRange, aggregateStandingsToPlayers and the leaderboard  *)
(*     calls getPlayerLeaderboardByCity / ByStore          (src/ttlCache.ts,*)
(*     src/bot/playhub.ts)                                                 *)
(*   - fetchWithRetry                          (src/bot/fetchWithRetry.ts) *)
(*   - expandStatusesForApi                                (src/api.ts)    *)
(*   - fetchEventDetails, fetchTournamentRoundStandings and                *)
(*     fetchAllRoundStandings                              (src/api.ts)    *)
(* Each subsystem has its own specification (SpecRunner, SpecCache,        *)
(* SpecStandings for the core getEventStandings and SpecEventStandings     *)
(* for either copy, SpecDates, SpecAggregate, SpecLeaderboard, SpecRetry,  *)
(* SpecStatuses, SpecAccessors) over the shared variables; the variables   *)
(* of the other subsystems stay at their initial values.                   *)
(***************************************************************************)
EXTENDS Integers, Sequences, FiniteSets, TLC

Min(a, b) == IF a <= b THEN a ELSE b

(***************************************************************************)
(* Bounds of the model.                                                    *)
(***************************************************************************)
\* longest item list of a direct call of runWithBoundedConcurrency
MaxItems == 3
\* widest pool of a direct call
MaxWidth == 3
\* events beyond the pool width in a fetchAllEventStandings call
ExtraEvents == 1

\* latest clock reading of a cache run
MaxTime == 2
\* largest maxSize a cache is created with
MaxCapacity == 2

\* most tournament phases of an event
MaxPhases == 2
\* most rounds of an event, over all its phases
MaxRoundsTotal == 3

\* latest day a start date of the model names
MaxStartDay == 2
\* latest day an end date of the model names
MaxEndDay == 370

\* most events in an aggregation
MaxAggEvents == 2

\* most events on a page that is not full
MaxPageEvents == 2
\* most pages of an event listing
MaxPages == 2

\* largest maxRetries option given to fetchWithRetry
MaxRetriesGiven == 2
\* longest statuses array given to expandStatusesForApi
MaxStatuses == 3

\* most calls of a cached accessor in one run
MaxCalls == 2
\* largest event id fetchEventDetails is called with
MaxEventId == 2
\* largest page fetchTournamentRoundStandings is called with
MaxPageAsked == 2
\* how often the clock advances during the calls of an accessor
MaxJumps == 1

\* api.ts:591
EVENT_STANDINGS_CONCURRENCY == 8
\* ttlCache.ts:75 (leaderboard module)
MAX_LEADERBOARD_LIMIT == 100
\* ttlCache.ts:103  limit = 20
DEFAULT_LIMIT == 20
\* ttlCache.ts:103  minEvents = 1
DEFAULT_MIN_EVENTS == 1
\* ttlCache.ts:127  pageSize: 100
LEADERBOARD_PAGE_SIZE == 100
\* bot/fetchWithRetry.ts:16
DEFAULT_MAX_RETRIES == 3
\* bot/fetchWithRetry.ts:17
DEFAULT_RETRY_DELAY_MS == 1000
\* api.ts:149  7 * 24 * 60 * 60 * 1000
CACHE_TTL_PAST_MS == 604800000
\* api.ts:150  60 * 1000
CACHE_TTL_LIVE_MS == 60000
\* api.ts:458
STANDINGS_PAGE_SIZE == 100
\* api.ts:459
STANDINGS_MAX_PAGES == 50
\* ttlCache.ts:73 (leaderboard module)
MAX_LEADERBOARD_DATE_RANGE_DAYS == 366
\* bot/playhub.ts:720
BOT_MAX_LEADERBOARD_DATE_RANGE_DAYS == 93

VARIABLES
    \* ---- runWithBoundedConcurrency (api.ts:564-588)
    caller,       \* "direct" | "fetchAllEventStandings"
    items,        \* the input array
    concurrency,  \* the requested width
    failing,      \* indices i for which fn(items[i]) throws or rejects
    results,      \* the results array, indexed 0 .. items.length-1
    index,        \* the shared next-unclaimed index
    workers,      \* worker number -> [pc, i]: awaiting fn(items[i]), done or rejected
    calls,        \* the indices fn was invoked for, in invocation order
    settled,      \* the indices whose fn call has settled (either way)
    promise,      \* the promise returned by runWithBoundedConcurrency
    \* ---- createTtlCache (ttlCache.ts:18-62)
    maxSize,      \* options.maxSize (0: unbounded)
    store,        \* the Map, as its entries in iteration (insertion) order
    now,          \* Date.now()
    lastOp,       \* the call that just ran: [op, key, found, ret]
    lastSet,      \* key -> the most recent set on it: [value, expiry], or NoSet
    capEvicted,   \* keys evicted for capacity since their last set
    recency,      \* keys by last use (set or successful get), least recent first
    \* ---- getEventStandings (api.ts:508-557, bot/playhub.ts:634-682)
    gesSurface,   \* "core" (api.ts) | "bot" (bot/playhub.ts)
    gesDetails,   \* how the request for the event's details ended
    tournament_phases, \* event.tournament_phases of the event upstream serves
    gesPc,        \* "awaitEvent" | "awaitRound" | "returned" | "threw"
    allRounds,    \* the flattened, sorted candidate rounds
    roundPos,     \* position in allRounds of the round being fetched
    fetched,      \* ids of the rounds whose standings were requested, in order
    responses,    \* the response to each request of fetched, in order
    inflight,     \* ids of the rounds whose standings request is outstanding
    gesRet,       \* the value getEventStandings returned
    \* ---- fetchAllEventStandings (api.ts:594-615)
    resolution,   \* index -> how getEventStandings(items[i], 100) ends
    outOfOrder,   \* some call settled while a call of a lower index was pending
    fasRet,       \* the list fetchAllEventStandings returned
    \* ---- validateDateRange (leaderboard module, ttlCache.ts:236-246)
    dvSurface,    \* "core" | "bot"
    dvStart,      \* startDate
    dvEnd,        \* endDate
    dvRet,        \* what the validation returned
    \* ---- aggregateStandingsToPlayers (ttlCache.ts:309-365)
    eventStandings, \* the argument: a list of {event, standings}
    aggMinEvents, \* minEvents
    aggSortBy,    \* sortBy
    aggLimit,     \* limit
    aggPc,        \* "called" | "returned"
    aggMap,       \* agg, the Map, as its values in insertion order
    aggPlayers,   \* the returned list
    aggSteps,     \* per entry, in loop order: its key, its per-event handle,
                  \* the wins and losses read from it and the display name
                  \* of the key's record after it
    \* ---- getPlayerLeaderboardByCity / ByStore (ttlCache.ts:98-230)
    lbSurface,    \* "core" | "bot"
    lbScope,      \* "city" | "store"
    lbStart,      \* params.startDate
    lbEnd,        \* params.endDate
    lbMinRounds,  \* params.minRounds
    lbLimit,      \* params.limit
    lbMinEvents,  \* params.minEvents
    lbPc,         \* where the call is
    lbPage,       \* page
    lbAllEvents,  \* allEvents, as the event ids
    lbCalls,      \* the collaborator calls issued so far, in order
    lbLastPage,   \* what the last settled page request settled with
    lbFetched,    \* the pages fetched so far: page number, events, total
    lbOutcomes,   \* event id -> how its standings resolution ended
    lbRet,        \* the value the promise settled with
    \* fetchWithRetry
    rtMaxRetries, \* options.maxRetries
    rtRetryDelayMs, \* options.retryDelayMs
    rtSleeps,     \* the delays slept so far, in ms and in order
    rtPc,         \* where the call is
    rtAttempt,    \* attempt
    rtLastError,  \* lastError
    rtLog,        \* what each fetch so far settled with, in order
    rtRet,        \* what the promise settled with
    \* expandStatusesForApi
    esStatuses,   \* statuses
    esPc,         \* where the call is
    esRet,        \* the returned array
    \* ---- the cached accessors (api.ts:331-346, 369-440, 464-491)
    acFn,         \* the accessor the calls of the run are calls of
    acNow,        \* Date.now()
    acJumps,      \* how often the clock has advanced
    acDetails,    \* the Map of eventDetailsCache, in iteration order
    acPaginated,  \* the Map of roundStandingsPaginatedCache
    acFull,       \* the Map of roundStandingsFullCache
    acCalls,      \* call number -> the arguments, locals and state of the call,
                  \* and what its latest request settled with
    acRequests,   \* the upstream requests issued, in order
    acPageCalls,  \* the calls of fetchTournamentRoundStandings made, in order
    acSets,       \* the sets on the three caches, in order: [call, cache, key]
    acLastSet     \* the latest of them, with its time and the expiry it gave

runnerVars == <<caller, items, concurrency, failing, results, index, workers,
                calls, settled, promise>>

cacheVars == <<maxSize, store, now, lastOp, lastSet, capEvicted, recency>>

gesVars == <<gesSurface, gesDetails, tournament_phases, gesPc, allRounds,
             roundPos, fetched, responses, inflight, gesRet>>

fasVars == <<resolution, outOfOrder, fasRet>>

dateVars == <<dvSurface, dvStart, dvEnd, dvRet>>

aggVars == <<eventStandings, aggMinEvents, aggSortBy, aggLimit, aggPc, aggMap,
             aggPlayers, aggSteps>>

lbVars == <<lbSurface, lbScope, lbStart, lbEnd, lbMinRounds, lbLimit,
            lbMinEvents, lbPc, lbPage, lbAllEvents, lbCalls, lbLastPage,
            lbFetched,
            lbOutcomes, lbRet>>

retryVars == <<rtMaxRetries, rtRetryDelayMs, rtPc, rtAttempt, rtLastError,
               rtLog, rtSleeps, rtRet>>

esVars == <<esStatuses, esPc, esRet>>

accVars == <<acFn, acNow, acJumps, acDetails, acPaginated, acFull, acCalls,
             acRequests, acPageCalls, acSets, acLastSet>>

vars == <<runnerVars, cacheVars, gesVars, fasVars, dateVars, aggVars, lbVars,
          retryVars, esVars, accVars>>

(***************************************************************************)
(* runWithBoundedConcurrency                                               *)
(***************************************************************************)
\* What reading a slot yields when nothing (or the catch branch) wrote it.
Undefined == <<"undefined">>
NoIndex == -1

\* fn(item) when it succeeds: a value that identifies the item it came from.
Op(item) == <<"result", item>>

\* The item lists of the model: distinct ids, so a result names its item.
ItemList(n) == [k \in 1..n |-> 10 + k]

\* api.ts:574  const item = items[i]   (i is 0-based)
ItemAt(i) == items[i + 1]

\* api.ts:583  Math.min(concurrency, items.length)
PoolSizeUnbounded == Len(items)
PoolSize == Min(concurrency, Len(items))

RunnerState == [index |-> index, workers |-> workers, calls |-> calls,
                results |-> results]

\* api.ts:572-576: the loop head of worker w up to its next await: claim the
\* next index and invoke fn on its item, or leave the loop.
RunWorkerSameIndex(w, st) ==
    IF st.index < Len(items)
    THEN [st EXCEPT !.workers = (w :> [pc |-> "awaiting", i |-> st.index]) @@ @,
                    !.index = IF w = 1 THEN @ + 1 ELSE @,
                    !.calls = Append(@, st.index)]
    ELSE [st EXCEPT !.workers = (w :> [pc |-> "done", i |-> NoIndex]) @@ @]
RunWorker(w, st) ==
    IF st.index < Len(items)
    THEN [st EXCEPT !.workers = (w :> [pc |-> "awaiting", i |-> st.index]) @@ @,
                    !.index = @ + 1,
                    !.calls = Append(@, st.index)]
    ELSE [st EXCEPT !.workers = (w :> [pc |-> "done", i |-> NoIndex]) @@ @]

\* api.ts:582-585: Array.from({length}, () => worker()) starts the workers one
\* after the other, each running synchronously to its first await.
RECURSIVE SpawnFrom(_, _)
SpawnFrom(w, st) ==
    IF w > PoolSize THEN st ELSE SpawnFrom(w + 1, RunWorker(w, st))

\* api.ts:576/578: the slot worker w writes when its awaited call settles.
ResultSlotShared(w) == index - 1
ResultSlot(w) == workers[w].i

\* api.ts:575-579: the continuation of worker w after fn(items[i]) settled.
\* A failure is caught and recorded as undefined; then the loop goes on.
WorkerResumeNoCatch(w) ==
    LET i == workers[w].i
    IN  IF i \in failing
        THEN [RunnerState EXCEPT
                 !.workers = (w :> [pc |-> "rejected", i |-> NoIndex]) @@ @]
        ELSE RunWorker(w, [RunnerState EXCEPT
                 !.results = (ResultSlot(w) :> Op(ItemAt(i))) @@ @])
WorkerResume(w) ==
    LET i == workers[w].i
        v == IF i \in failing THEN Undefined ELSE Op(ItemAt(i))
    IN  RunWorker(w, [RunnerState EXCEPT !.results = (ResultSlot(w) :> v) @@ @])

SetRunner(st) ==
    /\ index' = st.index
    /\ workers' = st.workers
    /\ calls' = st.calls
    /\ results' = st.results

\* How getEventStandings(eventId, 100) can end for one event (api.ts:508-557):
\* with {event, standings}, with null, or by throwing.
Resolutions == {"value", "null", "threw"}

RunnerInput ==
    \/ /\ caller = "direct"
       /\ \E n \in 0..MaxItems : items = ItemList(n)
       /\ concurrency \in 1..MaxWidth
       /\ failing \in SUBSET (0..(Len(items) - 1))
       /\ resolution = <<>>
    \* api.ts:597-607: the op of fetchAllEventStandings catches every error
    \* itself, and the width is the constant.
    \/ /\ caller = "fetchAllEventStandings"
       /\ \E n \in 0..MaxItems :
              /\ items = ItemList(n)
              /\ resolution \in [0..(n - 1) -> Resolutions]
       /\ concurrency = EVENT_STANDINGS_CONCURRENCY
       /\ failing = {}
    \/ /\ caller = "fetchAllEventStandings"
       /\ items = ItemList(EVENT_STANDINGS_CONCURRENCY + ExtraEvents)
       /\ resolution = [i \in 0..(Len(items) - 1) |-> "value"]
       /\ concurrency = EVENT_STANDINGS_CONCURRENCY
       /\ failing = {}

\* what fetchAllEventStandings has returned: nothing yet, or a list
NoList == [returned |-> FALSE, list |-> <<>>]
Returned(list) == [returned |-> TRUE, list |-> list]

\* api.ts:569-570: the state at entry, before the workers are created.
RunnerStart ==
    /\ RunnerInput
    /\ results = [i \in 0..(Len(items) - 1) |-> Undefined]
    /\ index = 0
    /\ workers = <<>>
    /\ calls = <<>>
    /\ settled = {}
    /\ promise = "called"
    /\ outOfOrder = FALSE
    /\ fasRet = NoList

\* api.ts:582-586: create the pool and await Promise.all(workers).
Call ==
    /\ promise = "called"
    /\ SetRunner(SpawnFrom(1, RunnerState))
    /\ promise' = "pending"
    /\ UNCHANGED <<caller, items, concurrency, failing, settled, fasVars>>
    /\ UNCHANGED <<cacheVars, gesVars, dateVars, aggVars, lbVars>>
    /\ UNCHANGED <<retryVars, esVars, accVars>>

\* One awaited fn call settles and its worker runs to its next await.
Settle(w) ==
    /\ promise = "pending"
    /\ workers[w].pc = "awaiting"
    /\ SetRunner(WorkerResume(w))
    /\ settled' = settled \cup {workers[w].i}
    /\ outOfOrder' = (outOfOrder \/ \E v \in DOMAIN workers :
                          workers[v].pc = "awaiting" /\ workers[v].i < workers[w].i)
    /\ UNCHANGED <<caller, items, concurrency, failing, promise, resolution,
                   fasRet>>
    /\ UNCHANGED <<cacheVars, gesVars, dateVars, aggVars, lbVars>>
    /\ UNCHANGED <<retryVars, esVars, accVars>>

\* api.ts:586-587: Promise.all settles: rejected once a worker has rejected,
\* resolved with the results array once every worker is done.
Finish ==
    /\ promise = "pending"
    /\ \/ \E w \in DOMAIN workers : workers[w].pc = "rejected"
       \/ \A w \in DOMAIN workers : workers[w].pc = "done"
    /\ promise' = IF \E w \in DOMAIN workers : workers[w].pc = "rejected"
                  THEN "rejected" ELSE "resolved"
    /\ UNCHANGED <<caller, items, concurrency, failing, results, index,
                   workers, calls, settled, fasVars>>
    /\ UNCHANGED <<cacheVars, gesVars, dateVars, aggVars, lbVars>>
    /\ UNCHANGED <<retryVars, esVars, accVars>>

(***************************************************************************)
(* createTtlCache                                                          *)
(***************************************************************************)
Keys == {"a", "b", "c"}
Values == {"v1", "v2"}
\* api.ts:149-150, 406, 483: each cache is written with one of two TTLs, the
\* short one of live data and the long one of past data (in clock ticks here)
TtlPolicies == {1, 2}
Absent == "absent"
NoSet == [value |-> Absent, expiry |-> -1]

KeysOf(s) == {s[n].key : n \in DOMAIN s}
\* store.has(key)
Has(s, k) == k \in KeysOf(s)
\* store.get(key), for a key the store has
Entry(s, k) == s[CHOOSE n \in DOMAIN s : s[n].key = k]
\* store.delete(key)
Delete(s, k) == SelectSeq(s, LAMBDA e : e.key # k)
\* store.set(key, entry): a new key goes last, a present key keeps its place
MapSet(s, k, e) ==
    IF Has(s, k)
    THEN [n \in DOMAIN s |-> IF s[n].key = k THEN e ELSE s[n]]
    ELSE Append(s, e)

\* ttlCache.ts:25  now > entry.expiresAt, in pruneExpired
PruneExpiredEntry(e, t) == t > e.expiresAt
\* ttlCache.ts:22-27
pruneExpiredNothing(s, t) == s
pruneExpired(s, t) == SelectSeq(s, LAMBDA e : ~PruneExpiredEntry(e, t))

\* ttlCache.ts:29-33
evictLru(s) ==
    IF maxSize <= 0 \/ Len(s) < maxSize THEN s
    ELSE IF s # <<>> THEN Delete(s, s[1].key) ELSE s

\* ttlCache.ts:53  while (store.size >= maxSize) evictLru();
RECURSIVE EvictWhileOverFull(_)
EvictWhileOverFull(s) ==
    IF Len(s) > maxSize THEN EvictWhileOverFull(evictLru(s)) ELSE s
RECURSIVE EvictWhileFull(_)
EvictWhileFull(s) ==
    IF Len(s) >= maxSize THEN EvictWhileFull(evictLru(s)) ELSE s

\* ttlCache.ts:39  Date.now() > entry.expiresAt, in get
GetExpiredInclusive(e, t) == t >= e.expiresAt
GetExpired(e, t) == t > e.expiresAt

\* ttlCache.ts:43-46: a hit moves the entry to the end when maxSize > 0
GetRefreshNone(s, k) == s
GetRefresh(s, k) ==
    IF maxSize > 0 THEN MapSet(Delete(s, k), k, Entry(s, k)) ELSE s

\* ttlCache.ts:55  { value, expiresAt: Date.now() + ttlMs }
NewEntryKeepLaterExpiry(s, k, v, ttl, t) ==
    [key |-> k, value |-> v,
     expiresAt |-> IF Has(s, k) /\ Entry(s, k).expiresAt > t + ttl
                   THEN Entry(s, k).expiresAt ELSE t + ttl]
NewEntry(s, k, v, ttl, t) == [key |-> k, value |-> v, expiresAt |-> t + ttl]

\* ttlCache.ts:49-60: the store after set(key, value, ttlMs) at time t (the
\* two Date.now() readings of one synchronous set are the same tick)
StoreAfterSet(s, k, v, ttl, t) ==
    LET pruned == pruneExpired(s, t)
        isNew == ~Has(pruned, k)
        room == IF isNew /\ maxSize > 0 THEN EvictWhileFull(pruned) ELSE pruned
        entry == NewEntry(pruned, k, v, ttl, t)
        dropped == IF maxSize > 0 /\ ~isNew THEN Delete(room, k) ELSE room
    IN  MapSet(dropped, k, entry)

\* the keys set's capacity loop removed (they had survived pruneExpired)
EvictedBySet(s, k, t) ==
    LET pruned == pruneExpired(s, t)
    IN  IF ~Has(pruned, k) /\ maxSize > 0
        THEN KeysOf(pruned) \ KeysOf(EvictWhileFull(pruned))
        ELSE {}

\* the use order: k becomes the most recently used key
Touch(r, k) == Append(SelectSeq(r, LAMBDA x : x # k), k)

\* ttlCache.ts:18-20: a fresh cache
CacheStart ==
    /\ maxSize \in 0..MaxCapacity
    /\ store = <<>>
    /\ now = 0
    /\ lastOp = [op |-> "create", key |-> "", found |-> "none", ret |-> Absent]
    /\ lastSet = [k \in Keys |-> NoSet]
    /\ capEvicted = {}
    /\ recency = <<>>

CacheIdle ==
    /\ maxSize = 0
    /\ store = <<>>
    /\ now = 0
    /\ lastOp = [op |-> "create", key |-> "", found |-> "none", ret |-> Absent]
    /\ lastSet = [k \in Keys |-> NoSet]
    /\ capEvicted = {}
    /\ recency = <<>>

\* ttlCache.ts:36-48
CacheGet(k) ==
    /\ IF ~Has(store, k)
       THEN /\ lastOp' = [op |-> "get", key |-> k, found |-> "none", ret |-> Absent]
            /\ UNCHANGED <<store, recency>>
       ELSE IF GetExpired(Entry(store, k), now)
       THEN /\ store' = Delete(store, k)
            /\ lastOp' = [op |-> "get", key |-> k, found |-> "expired", ret |-> Absent]
            /\ UNCHANGED recency
       ELSE /\ store' = GetRefresh(store, k)
            /\ lastOp' = [op |-> "get", key |-> k, found |-> "live",
                          ret |-> Entry(store, k).value]
            /\ recency' = Touch(recency, k)
    /\ UNCHANGED <<maxSize, now, lastSet, capEvicted>>
    /\ UNCHANGED <<runnerVars, gesVars, fasVars, dateVars, aggVars, lbVars>>
    /\ UNCHANGED <<retryVars, esVars, accVars>>

\* ttlCache.ts:49-60
CacheSet(k, v, ttl) ==
    /\ store' = StoreAfterSet(store, k, v, ttl, now)
    /\ lastOp' = [op |-> "set", key |-> k, found |-> "none", ret |-> Absent]
    /\ lastSet' = [lastSet EXCEPT ![k] = [value |-> v, expiry |-> now + ttl]]
    /\ capEvicted' = (capEvicted \cup EvictedBySet(store, k, now)) \ {k}
    /\ recency' = Touch(recency, k)
    /\ UNCHANGED <<maxSize, now>>
    /\ UNCHANGED <<runnerVars, gesVars, fasVars, dateVars, aggVars, lbVars>>
    /\ UNCHANGED <<retryVars, esVars, accVars>>

\* the clock advances between calls
Tick ==
    /\ now < MaxTime
    /\ now' = now + 1
    /\ lastOp' = [op |-> "tick", key |-> "", found |-> "none", ret |-> Absent]
    /\ UNCHANGED <<maxSize, store, lastSet, capEvicted, recency>>
    /\ UNCHANGED <<runnerVars, gesVars, fasVars, dateVars, aggVars, lbVars>>
    /\ UNCHANGED <<retryVars, esVars, accVars>>

CacheNext ==
    \/ \E k \in Keys : CacheGet(k)
    \/ \E k \in Keys, v \in Values, ttl \in TtlPolicies : CacheSet(k, v, ttl)
    \/ Tick

RunnerIdle ==
    /\ caller = "direct"
    /\ items = <<>>
    /\ concurrency = 1
    /\ failing = {}
    /\ results = <<>>
    /\ index = 0
    /\ workers = <<>>
    /\ calls = <<>>
    /\ settled = {}
    /\ promise = "called"
    /\ resolution = <<>>
    /\ outOfOrder = FALSE
    /\ fasRet = NoList

(***************************************************************************)
(* getEventStandings                                                       *)
(***************************************************************************)
NoStatus == "<absent>"
\* standings_status values served upstream: absent, an authoritative one in
\* mixed case, a provisional one, and one the code does not know
Statuses == {NoStatus, "Final", "in_progress", "scheduled"}
\* what getEventStandings returned: nothing yet, null, or {event, standings}
NoReturn == [kind |-> "none", event |-> <<>>, standings |-> <<>>]
Null == [kind |-> "null", event |-> <<>>, standings |-> <<>>]
\* bot/playhub.ts:569, 598: the {error} value of the bot's accessors
ErrorSlot == [kind |-> "error", event |-> <<>>, standings |-> <<>>]
\* the two copies of the code: api.ts and bot/playhub.ts
Surfaces == {"core", "bot"}
EventStandings(event, standings) ==
    [kind |-> "value", event |-> event, standings |-> standings]

\* String.prototype.toLowerCase on the statuses of the model (the absent
\* status stays absent, as under ?.)
ToLowerCase(str) ==
    CASE str = "Final" -> "final"
      [] str = "Past" -> "past"
      [] OTHER -> str

\* api.ts:495-501
roundStandingsPriority(standingsStatus) ==
    IF standingsStatus = NoStatus \/ standingsStatus = "" THEN 1
    ELSE LET s == ToLowerCase(standingsStatus)
         IN  IF s \in {"completed", "final", "published", "closed"} THEN 0
             ELSE IF s \in {"pending", "in_progress", "in progress"} THEN 2
             ELSE 1

\* api.ts:524-535: all rounds of all phases, in phase order, each with the
\* 0-based index of its phase
RECURSIVE FlattenFrom(_, _)
FlattenFrom(phases, phaseIndex) ==
    IF phaseIndex >= Len(phases) THEN <<>>
    ELSE [n \in DOMAIN phases[phaseIndex + 1] |->
             [id |-> phases[phaseIndex + 1][n].id,
              round_number |-> phases[phaseIndex + 1][n].round_number,
              phase_index |-> phaseIndex,
              standings_status |-> phases[phaseIndex + 1][n].standings_status]]
         \o FlattenFrom(phases, phaseIndex + 1)

\* api.ts:538-544: the comparator (negative: a first)
RoundCompareNoPhase(a, b) ==
    LET pa == roundStandingsPriority(a.standings_status)
        pb == roundStandingsPriority(b.standings_status)
    IN  IF pa # pb THEN pa - pb
        ELSE b.round_number - a.round_number
RoundCompare(a, b) ==
    LET pa == roundStandingsPriority(a.standings_status)
        pb == roundStandingsPriority(b.standings_status)
    IN  IF pa # pb THEN pa - pb
        ELSE IF b.phase_index # a.phase_index THEN b.phase_index - a.phase_index
        ELSE b.round_number - a.round_number

\* Array.prototype.sort with that comparator: a stable sort
InsertRound(x, sorted) ==
    LET k == Cardinality({n \in DOMAIN sorted : RoundCompare(sorted[n], x) <= 0})
    IN  SubSeq(sorted, 1, k) \o <<x>> \o SubSeq(sorted, k + 1, Len(sorted))
RECURSIVE SortRounds(_)
SortRounds(rounds) ==
    IF rounds = <<>> THEN <<>>
    ELSE InsertRound(rounds[Len(rounds)],
                     SortRounds(SubSeq(rounds, 1, Len(rounds) - 1)))

\* bot/playhub.ts:647-663: all rounds of all phases, in phase order; the
\* phases of the model carry no name
RECURSIVE BotFlattenFrom(_, _)
BotFlattenFrom(phases, phaseIndex) ==
    IF phaseIndex >= Len(phases) THEN <<>>
    ELSE [n \in DOMAIN phases[phaseIndex + 1] |->
             [id |-> phases[phaseIndex + 1][n].id,
              round_number |-> phases[phaseIndex + 1][n].round_number,
              phase_name |-> "<absent>",
              standings_status |-> phases[phaseIndex + 1][n].standings_status]]
         \o BotFlattenFrom(phases, phaseIndex + 1)

\* bot/playhub.ts:664-669: the comparator of the bot's copy
BotRoundCompare(a, b) ==
    LET pa == roundStandingsPriority(a.standings_status)
        pb == roundStandingsPriority(b.standings_status)
    IN  IF pa # pb THEN pa - pb
        ELSE b.round_number - a.round_number

\* Array.prototype.sort with that comparator
BotInsertRound(x, sorted) ==
    LET k == Cardinality({n \in DOMAIN sorted :
                             BotRoundCompare(sorted[n], x) <= 0})
    IN  SubSeq(sorted, 1, k) \o <<x>> \o SubSeq(sorted, k + 1, Len(sorted))
RECURSIVE BotSortRounds(_)
BotSortRounds(rounds) ==
    IF rounds = <<>> THEN <<>>
    ELSE BotInsertRound(rounds[Len(rounds)],
                        BotSortRounds(SubSeq(rounds, 1, Len(rounds) - 1)))

\* api.ts:524-544 and bot/playhub.ts:647-669: the candidate rounds in the
\* order the call tries them
RoundsToTry(surface, phases) ==
    IF surface = "core" THEN SortRounds(FlattenFrom(phases, 0))
    ELSE BotSortRounds(BotFlattenFrom(phases, 0))

\* page 1 of the standings upstream holds for a round that has data
Standings(roundId) == <<[round |-> roundId, rank |-> 1]>>
\* what a standings request can come back with: a rejection, or a page
Threw == [ok |-> FALSE, results |-> <<>>]
Page(entries) == [ok |-> TRUE, results |-> entries]
StandingsResponses(roundId) == {Threw, Page(<<>>), Page(Standings(roundId))}
\* bot/playhub.ts:594-597: getTournamentRoundStandings returns {error} for
\* a response that is not OK, and rejects when the request throws
ApiErrorReply == [ok |-> FALSE, results |-> <<[error |-> "API error"]>>]
BotStandingsResponses(roundId) ==
    StandingsResponses(roundId) \cup {ApiErrorReply}

\* api.ts:549  standingsRes.results.length > 0
HasResultsOrEmpty(res) == Len(res.results) >= 0
HasResults(res) == Len(res.results) > 0

\* the events of the model: up to MaxPhases phases holding up to
\* MaxRoundsTotal rounds in all; within a phase the round numbers are unique
\* and listed oldest first or newest first; ids number the rounds through
\* the phases
GesInput ==
    \E p \in 0..MaxPhases, n \in 0..MaxRoundsTotal :
      \E phaseOf \in [1..n -> 1..p] :
        /\ \A i \in 1..(n - 1) : phaseOf[i] <= phaseOf[i + 1]
        /\ \E rn \in [1..n -> 1..n] :
             /\ \A i \in 1..n :
                   rn[i] <= Cardinality({j \in 1..n : phaseOf[j] = phaseOf[i]})
             /\ \A ph \in 1..p :
                   \/ \A i, j \in 1..n :
                         (i < j /\ phaseOf[i] = ph /\ phaseOf[j] = ph)
                             => rn[i] < rn[j]
                   \/ \A i, j \in 1..n :
                         (i < j /\ phaseOf[i] = ph /\ phaseOf[j] = ph)
                             => rn[i] > rn[j]
             /\ \E st \in [1..n -> Statuses] :
                  tournament_phases =
                    [ph \in 1..p |->
                       LET first == Cardinality({j \in 1..n : phaseOf[j] < ph})
                           count == Cardinality({j \in 1..n : phaseOf[j] = ph})
                       IN  [m \in 1..count |->
                              [id |-> first + m,
                               round_number |-> rn[first + m],
                               standings_status |-> st[first + m]]]]

\* api.ts:512, bot/playhub.ts:638: the call is awaiting the event's
\* details
GesCalled ==
    /\ GesInput
    /\ gesDetails = "pending"
    /\ gesPc = "awaitEvent"
    /\ allRounds = <<>>
    /\ roundPos = 0
    /\ fetched = <<>>
    /\ responses = <<>>
    /\ inflight = {}
    /\ gesRet = NoReturn

\* a call of the core getEventStandings, and one of either copy
GesStart == GesCalled /\ gesSurface = "core"
GesStartEither == GesCalled /\ gesSurface \in Surfaces

GesIdle ==
    /\ gesSurface = "core"
    /\ gesDetails = "pending"
    /\ tournament_phases = <<>>
    /\ gesPc = "awaitEvent"
    /\ allRounds = <<>>
    /\ roundPos = 0
    /\ fetched = <<>>
    /\ responses = <<>>
    /\ inflight = {}
    /\ gesRet = NoReturn

\* api.ts:546-548, 556: the head of the for loop at position pos of rounds:
\* request the standings of that round, or return null past the last one
WalkFrom(rounds, pos, outstanding) ==
    IF pos <= Len(rounds)
    THEN /\ gesPc' = "awaitRound"
         /\ roundPos' = pos
         /\ fetched' = Append(fetched, rounds[pos].id)
         /\ inflight' = outstanding \cup {rounds[pos].id}
         /\ gesRet' = gesRet
    ELSE /\ gesPc' = "returned"
         /\ roundPos' = pos
         /\ fetched' = fetched
         /\ inflight' = outstanding
         /\ gesRet' = Null

\* api.ts:512-548, bot/playhub.ts:638-675: the event's details arrived
EventDetailsResolved ==
    /\ gesPc = "awaitEvent"
    /\ gesDetails' = "ok"
    /\ responses' = responses
    /\ IF Len(tournament_phases) = 0
       THEN /\ gesPc' = "returned"
            /\ gesRet' = Null
            /\ UNCHANGED <<allRounds, roundPos, fetched, inflight>>
       ELSE /\ allRounds' = RoundsToTry(gesSurface, tournament_phases)
            /\ WalkFrom(allRounds', 1, inflight)
    /\ UNCHANGED <<gesSurface, tournament_phases>>
    /\ UNCHANGED <<runnerVars, cacheVars, fasVars, dateVars, aggVars, lbVars>>
    /\ UNCHANGED <<retryVars, esVars, accVars>>

\* api.ts:337-341, 512 and bot/playhub.ts:567-570, 638-639: how the call
\* ends when the request for the details failed: the response was not OK
\* ("notOk") or the request threw ("threw"). fetchEventDetails rejects in
\* both cases and nothing catches it; the bot's getEventDetails returns
\* {error} for a response that is not OK, which the call returns, and
\* rejects when the request threw.
DetailsFailedAsNull(surface, failure) == [pc |-> "returned", ret |-> Null]
DetailsFailed(surface, failure) ==
    IF surface = "bot" /\ failure = "notOk"
    THEN [pc |-> "returned", ret |-> ErrorSlot]
    ELSE [pc |-> "threw", ret |-> NoReturn]

\* the request for the event's details failed
EventDetailsRejected ==
    /\ gesPc = "awaitEvent"
    /\ \E failure \in {"notOk", "threw"} :
          /\ gesDetails' = failure
          /\ gesPc' = DetailsFailed(gesSurface, failure).pc
          /\ gesRet' = DetailsFailed(gesSurface, failure).ret
    /\ UNCHANGED <<gesSurface, tournament_phases, allRounds, roundPos, fetched,
                   responses, inflight>>
    /\ UNCHANGED <<runnerVars, cacheVars, fasVars, dateVars, aggVars, lbVars>>
    /\ UNCHANGED <<retryVars, esVars, accVars>>

\* api.ts:552-554: what the catch around a round's fetch does
RoundFailedReturnsNull ==
    /\ gesPc' = "returned"
    /\ gesRet' = Null
    /\ UNCHANGED <<roundPos, fetched>>
    /\ inflight' = inflight \ {allRounds[roundPos].id}
RoundFailed ==
    WalkFrom(allRounds, roundPos + 1, inflight \ {allRounds[roundPos].id})

\* bot/playhub.ts:672-675: the bot's call has no catch around the await
RoundThrew ==
    /\ gesPc' = "threw"
    /\ gesRet' = gesRet
    /\ UNCHANGED <<roundPos, fetched>>
    /\ inflight' = inflight \ {allRounds[roundPos].id}

\* api.ts:548-555, bot/playhub.ts:673-681: the awaited standings request
\* of the current round settles
RoundStandingsSettled ==
    /\ gesPc = "awaitRound"
    /\ \E res \in IF gesSurface = "core"
                  THEN StandingsResponses(allRounds[roundPos].id)
                  ELSE BotStandingsResponses(allRounds[roundPos].id) :
          /\ responses' = Append(responses, res)
          /\ IF gesSurface = "bot" /\ res = Threw
             THEN RoundThrew
             ELSE IF ~res.ok
             THEN RoundFailed
             ELSE IF HasResults(res)
             THEN /\ gesPc' = "returned"
                  /\ gesRet' = EventStandings(tournament_phases, res.results)
                  /\ inflight' = inflight \ {allRounds[roundPos].id}
                  /\ UNCHANGED <<roundPos, fetched>>
             ELSE WalkFrom(allRounds, roundPos + 1,
                           inflight \ {allRounds[roundPos].id})
    /\ UNCHANGED <<gesSurface, gesDetails, tournament_phases, allRounds>>
    /\ UNCHANGED <<runnerVars, cacheVars, fasVars, dateVars, aggVars, lbVars>>
    /\ UNCHANGED <<retryVars, esVars, accVars>>

GesNext ==
    \/ EventDetailsResolved
    \/ EventDetailsRejected
    \/ RoundStandingsSettled

(***************************************************************************)
(* fetchAllEventStandings                                                  *)
(***************************************************************************)
\* the {event, standings} getEventStandings resolves with for an event that
\* has standings: the event carries its id, the list is not empty
ResolvedStandings(eventId) ==
    EventStandings([id |-> eventId], <<[event |-> eventId, rank |-> 1]>>)
\* an array slot nothing was written to
UndefinedSlot == [kind |-> "undefined", event |-> <<>>, standings |-> <<>>]

\* api.ts:599-605: the op of fetchAllEventStandings on items[i]: what
\* getEventStandings resolved with, or null when it threw
FetchOp(i) ==
    IF resolution[i] = "value" THEN ResolvedStandings(ItemAt(i)) ELSE Null

\* api.ts:597, 609: raw, the array the runner resolved with: slot k holds
\* what the op returned for the item whose result was written there
RawSlot(k) ==
    IF results[k] = Undefined THEN UndefinedSlot
    ELSE FetchOp(CHOOSE i \in DOMAIN results : Op(ItemAt(i)) = results[k])
Raw == [n \in 1..Len(items) |-> RawSlot(n - 1)]

\* api.ts:610  one !== null && one !== undefined
IsKept(one) == one # Null /\ one # UndefinedSlot

\* api.ts:608-614: collect the kept slots of raw, in array order
CollectUnshift(raw) ==
    LET kept == SelectSeq(raw, IsKept)
    IN  [n \in DOMAIN kept |-> kept[Len(kept) + 1 - n]]
Collect(raw) == SelectSeq(raw, IsKept)

\* api.ts:608-614: the continuation of fetchAllEventStandings after the
\* runner's promise resolved
FetchAllReturn ==
    /\ caller = "fetchAllEventStandings"
    /\ promise = "resolved"
    /\ ~fasRet.returned
    /\ fasRet' = Returned(Collect(Raw))
    /\ UNCHANGED <<runnerVars, resolution, outOfOrder>>
    /\ UNCHANGED <<cacheVars, gesVars, dateVars, aggVars, lbVars>>
    /\ UNCHANGED <<retryVars, esVars, accVars>>

RunnerNext ==
    \/ Call
    \/ \E w \in DOMAIN workers : Settle(w)
    \/ Finish
    \/ FetchAllReturn

(***************************************************************************)
(* validateDateRange (leaderboard module)                                  *)
(***************************************************************************)
\* A YYYY-MM-DD argument is modelled by the calendar day it names, counted
\* from 1970-01-01 (day 0), or by NotADate when new Date() cannot parse it.
NotADate == -1
\* Date.prototype.getTime() of an invalid date
NaN == -1
\* Times are counted in seconds, not milliseconds: every time the code
\* computes here is a whole number of seconds, and the quotient it rounds
\* is the same in both units.
\* ttlCache.ts:240  24 * 60 * 60 * 1000 ms
DAY == 24 * 60 * 60

\* ttlCache.ts:237  new Date(startDate + "T00:00:00Z").getTime()
StartOfDay(date) == IF date = NotADate THEN NaN ELSE date * DAY
\* ttlCache.ts:238  new Date(endDate + "T23:59:59Z").getTime()
EndOfDay(date) ==
    IF date = NotADate THEN NaN
    ELSE date * DAY + 23 * 60 * 60 + 59 * 60 + 59

\* ttlCache.ts:241  Math.round(x / DAY), for x >= 0: the nearest integer,
\* a half rounding up
FloorDays(x) == x \div DAY
RoundDays(x) == (2 * x + DAY) \div (2 * DAY)

\* the string | null that validateDateRange returns: the message, and the
\* number its template is filled with
NoDateError == [message |-> "null", days |-> 0]
DateError(message, days) == [message |-> message, days |-> days]

\* ttlCache.ts:236-246 (bot/playhub.ts:987-1002 inlines the same steps)
validateDateRange(startDate, endDate, maxDays) ==
    LET start == StartOfDay(startDate)
        end == EndOfDay(endDate)
    IN  IF start = NaN \/ end = NaN
        THEN DateError("Dates must be valid YYYY-MM-DD.", 0)
        ELSE IF start > end
        THEN DateError("start_date must be on or before end_date.", 0)
        ELSE IF RoundDays(end - start) > maxDays
        THEN DateError("Date range cannot exceed N days", maxDays)
        ELSE NoDateError

\* ttlCache.ts:73 and bot/playhub.ts:720
MaxDateRangeDays(surface) ==
    IF surface = "core" THEN MAX_LEADERBOARD_DATE_RANGE_DAYS
    ELSE BOT_MAX_LEADERBOARD_DATE_RANGE_DAYS

NotValidated == [message |-> "<not called>", days |-> 0]

\* the dates of the model
DateStart ==
    /\ dvSurface \in Surfaces
    /\ dvStart \in {NotADate} \cup (0..MaxStartDay)
    /\ dvEnd \in {NotADate} \cup (0..MaxEndDay)
    /\ dvRet = NotValidated

DateIdle ==
    /\ dvSurface = "core"
    /\ dvStart = NotADate
    /\ dvEnd = NotADate
    /\ dvRet = NotValidated

\* ttlCache.ts:107 / bot/playhub.ts:987: the dates are validated
Validate ==
    /\ dvRet = NotValidated
    /\ dvRet' = validateDateRange(dvStart, dvEnd, MaxDateRangeDays(dvSurface))
    /\ UNCHANGED <<dvSurface, dvStart, dvEnd>>
    /\ UNCHANGED <<runnerVars, fasVars, cacheVars, gesVars, aggVars, lbVars>>
    /\ UNCHANGED <<retryVars, esVars, accVars>>

DateNext == Validate

(***************************************************************************)
(* Standing entries and their readers (leaderboard module)                 *)
(***************************************************************************)
\* an optional field that is undefined: a name, a number, a record string
NoName == "<absent>"
NoNum == -1
NoRecord == <<"<absent>">>
\* ttlCache.ts:283, 294, 324: the sentinel of an entry that names nobody
\* (an em dash in the source)
Unknown == "--"

\* A record string is the sequence of its characters.
DigitValue(c) ==
    CASE c = "0" -> 0 [] c = "1" -> 1 [] c = "2" -> 2 [] c = "3" -> 3
      [] c = "4" -> 4 [] c = "5" -> 5 [] c = "6" -> 6 [] c = "7" -> 7
      [] c = "8" -> 8 [] c = "9" -> 9 [] OTHER -> NaN

\* String.prototype.trim
RECURSIVE TrimLeft(_)
TrimLeft(str) ==
    IF str # <<>> /\ str[1] = " " THEN TrimLeft(Tail(str)) ELSE str
RECURSIVE TrimRight(_)
TrimRight(str) ==
    IF str # <<>> /\ str[Len(str)] = " "
    THEN TrimRight(SubSeq(str, 1, Len(str) - 1)) ELSE str
Trim(str) == TrimRight(TrimLeft(str))

\* String.prototype.split("-")
RECURSIVE Split(_)
Split(str) ==
    LET dashes == {n \in DOMAIN str : str[n] = "-"}
    IN  IF dashes = {} THEN <<str>>
        ELSE LET d == CHOOSE n \in dashes : \A m \in dashes : n <= m
             IN  <<SubSeq(str, 1, d - 1)>> \o Split(SubSeq(str, d + 1, Len(str)))

\* parseInt(s, 10) of a string without a sign: the value of the longest
\* prefix of digits after leading blanks, NaN when there is none
RECURSIVE DigitsValue(_, _)
DigitsValue(str, acc) ==
    IF str = <<>> \/ DigitValue(str[1]) = NaN THEN acc
    ELSE DigitsValue(Tail(str), 10 * acc + DigitValue(str[1]))
ParseInt(str) ==
    LET t == TrimLeft(str)
    IN  IF t = <<>> \/ DigitValue(t[1]) = NaN THEN NaN ELSE DigitsValue(t, 0)

\* ttlCache.ts:261-268
parseRecordToWinsLosses(record) ==
    IF record = NoRecord \/ Trim(record) = <<>> THEN [wins |-> 0, losses |-> 0]
    ELSE LET parts == [n \in DOMAIN Split(record) |->
                          ParseInt(Trim(Split(record)[n]))]
         IN  IF Len(parts) >= 2 /\ parts[1] # NaN /\ parts[2] # NaN
             THEN [wins |-> parts[1], losses |-> parts[2]]
             ELSE [wins |-> 0, losses |-> 0]

\* a ?? b ?? ... ?? last, over names
RECURSIVE FirstPresent(_, _)
FirstPresent(names, last) ==
    IF names = <<>> THEN last
    ELSE IF names[1] # NoName THEN names[1]
    ELSE FirstPresent(Tail(names), last)

\* The key "player_id:<id>" is [id |-> id, name |-> NoName]; a key that is a
\* name is [id |-> NoNum, name |-> name].
PlayerIdKey(id) == [id |-> id, name |-> NoName]
NameKey(name) == [id |-> NoNum, name |-> name]

\* ttlCache.ts:274-285
standingPlayerKeyByName(entry) ==
    NameKey(FirstPresent(<<entry.player_best_identifier, entry.player_name,
                           entry.display_name, entry.username>>, Unknown))
standingPlayerKey(entry) ==
    IF entry.player_id # NoNum THEN PlayerIdKey(entry.player_id)
    ELSE NameKey(FirstPresent(<<entry.player_best_identifier, entry.player_name,
                                entry.display_name, entry.username>>, Unknown))

\* ttlCache.ts:287-296
standingPlayerDisplayName(entry) ==
    FirstPresent(<<entry.user_event_status, entry.player_best_identifier,
                   entry.player_name, entry.display_name, entry.username>>,
                 Unknown)

\* ttlCache.ts:298-300 (i is the 0-based index)
standingPlacementIndexOnly(entry, i) == i + 1
standingPlacement(entry, i) ==
    IF entry.rank # NoNum THEN entry.rank
    ELSE IF entry.placement # NoNum THEN entry.placement
    ELSE i + 1

\* ttlCache.ts:302-307
standingWinsLossesEitherField(entry) ==
    LET parsed == parseRecordToWinsLosses(
                      IF entry.record # NoRecord THEN entry.record
                      ELSE entry.match_record)
    IN  [wins |-> IF entry.wins # NoNum THEN entry.wins ELSE parsed.wins,
         losses |-> IF entry.losses # NoNum THEN entry.losses
                    ELSE parsed.losses]
standingWinsLosses(entry) ==
    IF entry.wins # NoNum /\ entry.losses # NoNum
    THEN [wins |-> entry.wins, losses |-> entry.losses]
    ELSE parseRecordToWinsLosses(IF entry.record # NoRecord THEN entry.record
                                 ELSE entry.match_record)

(***************************************************************************)
(* aggregateStandingsToPlayers and sortPlayers (leaderboard module)        *)
(***************************************************************************)
\* ttlCache.ts:338  else if (hasUserEventStatus && !rec.hasUserEventStatus)
TakesNameOfEveryEntry(old, hasUserEventStatus) == TRUE
TakesName(old, hasUserEventStatus) ==
    hasUserEventStatus /\ ~old.hasUserEventStatus

\* ttlCache.ts:327-345: the body of the inner loop for standings[i] = entry;
\* agg is the Map as its records in insertion order, each with its key
AggEntry(agg, entry, i) ==
    LET key == standingPlayerKey(entry)
        displayName == standingPlayerDisplayName(entry)
        hasUserEventStatus == entry.user_event_status # NoName
        placement == standingPlacement(entry, i)
        wl == standingWinsLosses(entry)
        rec == IF \E n \in DOMAIN agg : agg[n].key = key
               THEN LET old == agg[CHOOSE n \in DOMAIN agg : agg[n].key = key]
                    IN  IF TakesName(old, hasUserEventStatus)
                        THEN [old EXCEPT !.displayName = displayName,
                                         !.hasUserEventStatus = TRUE]
                        ELSE old
               ELSE [key |-> key, displayName |-> displayName,
                     hasUserEventStatus |-> hasUserEventStatus,
                     wins |-> 0, losses |-> 0, eventsPlayed |-> 0,
                     placements |-> <<>>]
        new == [rec EXCEPT !.wins = @ + wl.wins, !.losses = @ + wl.losses,
                           !.eventsPlayed = @ + 1,
                           !.placements = Append(@, placement)]
    IN  IF key = NameKey(Unknown) THEN agg
        ELSE IF \E n \in DOMAIN agg : agg[n].key = key
        THEN [agg EXCEPT ![CHOOSE n \in DOMAIN agg : agg[n].key = key] = new]
        ELSE Append(agg, new)

\* ttlCache.ts:326-346: the inner loop from index i on. (Len(agg) < 0 never
\* holds: reading agg there has TLC compute the Map step by step instead of
\* nesting the steps of a long listing.)
RECURSIVE AggStandings(_, _, _)
AggStandings(agg, standings, i) ==
    IF Len(agg) < 0 \/ i >= Len(standings) THEN agg
    ELSE AggStandings(AggEntry(agg, standings[i + 1], i), standings, i + 1)

\* ttlCache.ts:325-347: the outer loop over the events lo..hi, in order (the
\* first half of them, then the second half, starting from what the first
\* half left)
RECURSIVE AggEvents(_, _, _, _)
AggEvents(agg, evs, lo, hi) ==
    IF Len(agg) < 0 \/ lo > hi THEN agg
    ELSE IF lo = hi THEN AggStandings(agg, evs[lo].standings, 0)
    ELSE LET mid == (lo + hi) \div 2
         IN  AggEvents(AggEvents(agg, evs, lo, mid), evs, mid + 1, hi)

\* ttlCache.ts:325-347: the loop step by step. Step n handles entry i of
\* event e, n - 1 entries coming before it; the step leaves its key, the
\* per-event handle of the entry, the wins and losses read from it and the
\* display name then held for the key (none when the entry was skipped).
LoopSteps(evs) ==
    LET steps == UNION {{<<e, i>> : i \in 0..(Len(evs[e].standings) - 1)} :
                           e \in DOMAIN evs}
        Earlier(s) == {t \in steps : t[1] < s[1] \/ (t[1] = s[1] /\ t[2] < s[2])}
    IN  [n \in 1..Cardinality(steps) |->
            LET s == CHOOSE t \in steps : Cardinality(Earlier(t)) = n - 1
                entry == evs[s[1]].standings[s[2] + 1]
                agg == AggStandings(AggEvents(<<>>, evs, 1, s[1] - 1),
                                    SubSeq(evs[s[1]].standings, 1, s[2] + 1), 0)
                key == standingPlayerKey(entry)
            IN  [key |-> key, handle |-> entry.user_event_status,
                 wins |-> standingWinsLosses(entry).wins,
                 losses |-> standingWinsLosses(entry).losses,
                 name |-> IF \E k \in DOMAIN agg : agg[k].key = key
                          THEN agg[CHOOSE k \in DOMAIN agg :
                                       agg[k].key = key].displayName
                          ELSE NoName]]

\* Math.min(...r.placements) of a non-empty list
MinOf(list) == CHOOSE x \in {list[n] : n \in DOMAIN list} :
                   \A n \in DOMAIN list : x <= list[n]

\* ttlCache.ts:351-359
ToPlayerStats(r) ==
    [playerName |-> r.displayName,
     totalWins |-> r.wins,
     totalLosses |-> r.losses,
     eventsPlayed |-> r.eventsPlayed,
     bestPlacement |-> MinOf(r.placements),
     firstPlaceFinishes |-> Len(SelectSeq(r.placements, LAMBDA p : p = 1)),
     placements |-> r.placements]

SortKeys == {"total_wins", "events_played", "win_rate", "best_placement"}

\* ttlCache.ts:384-385: the sign of rateB - rateA, the rate of a player
\* without games being 0
RateNumNoGamesOne(p) == IF p.totalWins + p.totalLosses > 0 THEN p.totalWins ELSE 1
RateNum(p) == IF p.totalWins + p.totalLosses > 0 THEN p.totalWins ELSE 0
RateDen(p) ==
    IF p.totalWins + p.totalLosses > 0 THEN p.totalWins + p.totalLosses ELSE 1
RateDiff(a, b) == RateNum(b) * RateDen(a) - RateNum(a) * RateDen(b)

\* ttlCache.ts:369-398: the comparators (negative: a first)
ComparePlayersFirstKeyOnly(sortBy, a, b) ==
    CASE sortBy = "total_wins" -> b.totalWins - a.totalWins
      [] sortBy = "events_played" -> b.eventsPlayed - a.eventsPlayed
      [] sortBy = "win_rate" -> RateDiff(a, b)
      [] OTHER -> a.bestPlacement - b.bestPlacement
ComparePlayers(sortBy, a, b) ==
    LET byRecord == IF b.totalWins # a.totalWins THEN b.totalWins - a.totalWins
                    ELSE IF a.totalLosses # b.totalLosses
                    THEN a.totalLosses - b.totalLosses
                    ELSE a.bestPlacement - b.bestPlacement
    IN  CASE sortBy = "total_wins" -> byRecord
          [] sortBy = "events_played" ->
                IF b.eventsPlayed # a.eventsPlayed
                THEN b.eventsPlayed - a.eventsPlayed ELSE byRecord
          [] sortBy = "win_rate" ->
                IF RateDiff(a, b) # 0 THEN RateDiff(a, b) ELSE byRecord
          [] OTHER ->
                IF a.bestPlacement # b.bestPlacement
                THEN a.bestPlacement - b.bestPlacement
                ELSE IF b.totalWins # a.totalWins THEN b.totalWins - a.totalWins
                ELSE IF a.totalLosses # b.totalLosses
                THEN a.totalLosses - b.totalLosses
                ELSE 0

\* ttlCache.ts:367-400: [...players].sort(comparator). The sort is stable
\* and the comparators order the players consistently, so a player is
\* placed after those that compare before it and those that compare equal
\* and precede it in the input. (Comparing players and place with the
\* empty list has TLC tabulate them once; no place is empty unless players
\* is.)
sortPlayers(players, sortBy) ==
    LET Before(m, n) ==
            LET c == ComparePlayers(sortBy, players[m], players[n])
            IN  c < 0 \/ (c = 0 /\ m < n)
        place == [n \in DOMAIN players |->
                     1 + Cardinality({m \in DOMAIN players : Before(m, n)})]
    IN  IF players = <<>> \/ place = <<>> THEN <<>>
        ELSE [k \in DOMAIN players |->
                 players[CHOOSE n \in DOMAIN players : place[n] = k]]

\* ttlCache.ts:349-364: from the filled Map to the returned list
PlayersOfMap(agg, minEvents, sortBy, limit) ==
    LET qualified == SelectSeq(agg, LAMBDA r : r.eventsPlayed >= minEvents)
        players == [n \in DOMAIN qualified |-> ToPlayerStats(qualified[n])]
        sorted == sortPlayers(players, sortBy)
    IN  SubSeq(sorted, 1, Min(limit, Len(sorted)))

\* ttlCache.ts:309-365
aggregateStandingsToPlayers(evs, minEvents, sortBy, limit) ==
    PlayersOfMap(AggEvents(<<>>, evs, 1, Len(evs)), minEvents, sortBy, limit)

\* a standing entry; display_name, username and match_record are left out
\* by the entries of the model
StandingEntry(id, best, status, name, rank, placement, wins, losses, record) ==
    [player_id |-> id,
     player_best_identifier |-> best,
     user_event_status |-> status,
     player_name |-> name, display_name |-> NoName,
     username |-> NoName,
     rank |-> rank, placement |-> placement,
     wins |-> wins, losses |-> losses,
     record |-> record, match_record |-> NoRecord]

\* The entries of the model: player 1 with explicit wins and with a record
\* string and a per-event handle; player 2 under two handles, once tied with
\* player 1 on every sort key; a player known by player_name and a
\* per-event handle, without rank, placement or a readable record; and an
\* entry that names nobody.
Ann30 == StandingEntry(1, "ann", NoName, NoName, 1, NoNum, 3, 0, NoRecord)
Ann21 == StandingEntry(1, "ann", "Ann#1", NoName, 4, NoNum, NoNum, NoNum,
                       <<"2", "-", "1">>)
Bob30 == StandingEntry(2, "bob", NoName, NoName, NoNum, 1, 3, 0, NoRecord)
Bobby12 == StandingEntry(2, "bobby", "Bobby#2", NoName, 2, 5, NoNum, 1,
                         <<" ", "1", " ", "-", "2", "x">>)
Cy == StandingEntry(NoNum, NoName, "Cy#1", "cy", NoNum, NoNum, NoNum, NoNum,
                    <<"x">>)
Nobody == StandingEntry(NoNum, NoName, NoName, NoName, 1, NoNum, 2, 0, NoRecord)
\* entries without a player id: one known by the handle of player 1, with
\* its record under match_record; one known by its display name, without
\* wins, losses or a record; and one known by the username "cy", with wins
\* but no losses and an empty record
AnnNoId == [Nobody EXCEPT !.player_best_identifier = "ann",
                          !.player_name = "annie", !.wins = NoNum,
                          !.losses = NoNum, !.match_record = <<"3", "-", "1">>]
Dee == [Nobody EXCEPT !.display_name = "dee", !.username = "cy", !.rank = 3,
                      !.wins = NoNum, !.losses = NoNum]
CyUser == [Nobody EXCEPT !.username = "cy", !.user_event_status = "Cy#2",
                         !.losses = NoNum, !.record = <<>>,
                         !.match_record = <<"3", "-", "1">>]
EntryPool == {Ann30, Ann21, Bob30, Bobby12, Cy, Nobody, AnnNoId, Dee, CyUser}

\* the standings lists of the model: no entry, one entry, and pairs that
\* have two tied players in one event, an entry placed by its position, an
\* entry after one that is skipped, and two entries without a player id
\* that go by the same name under different handles
StandingsPool ==
    {<<>>} \cup {<<e>> : e \in EntryPool}
           \cup {<<Ann30, Bob30>>, <<Ann30, Cy>>, <<Cy, Ann21>>,
                 <<Nobody, Cy>>, <<Bobby12, Ann21>>, <<Cy, CyUser>>}

\* the (minEvents, limit) pairs of the model, after their clamping
AggParams == {<<1, 20>>, <<2, 20>>, <<1, 1>>}

NoPlayers == <<>>

\* ttlCache.ts:309-315: the call
AggStart ==
    /\ \E n \in 0..MaxAggEvents :
         \E lists \in [1..n -> StandingsPool] :
            eventStandings = [k \in 1..n |->
                                 EventStandings([id |-> k], lists[k])]
    /\ aggSortBy \in SortKeys
    /\ \E pr \in AggParams : aggMinEvents = pr[1] /\ aggLimit = pr[2]
    /\ aggPc = "called"
    /\ aggMap = <<>>
    /\ aggPlayers = NoPlayers
    /\ aggSteps = <<>>

AggIdle ==
    /\ eventStandings = <<>>
    /\ aggSortBy = "total_wins"
    /\ aggMinEvents = 1
    /\ aggLimit = 20
    /\ aggPc = "called"
    /\ aggMap = <<>>
    /\ aggPlayers = NoPlayers
    /\ aggSteps = <<>>

\* ttlCache.ts:309-365: the whole synchronous call
Aggregate ==
    /\ aggPc = "called"
    /\ aggPc' = "returned"
    /\ aggMap' = AggEvents(<<>>, eventStandings, 1, Len(eventStandings))
    /\ aggPlayers' = PlayersOfMap(aggMap', aggMinEvents, aggSortBy, aggLimit)
    /\ aggSteps' = LoopSteps(eventStandings)
    /\ UNCHANGED <<eventStandings, aggMinEvents, aggSortBy, aggLimit>>
    /\ UNCHANGED <<runnerVars, fasVars, cacheVars, gesVars, dateVars, lbVars>>
    /\ UNCHANGED <<retryVars, esVars, accVars>>

AggNext == Aggregate

(***************************************************************************)
(* getPlayerLeaderboardByCity / getPlayerLeaderboardByStore                *)
(***************************************************************************)
\* How a fetchWithRetry call and the reading of its body can end
\* (bot/fetchWithRetry.ts:42-100): an OK response, the last non-OK response,
\* or the last network/timeout error thrown once the retries are used up.
\* "cached" is the accessor finding its answer in its TTL cache.
HttpOutcomes == {"ok", "notOk", "threw"}

\* what an awaited collaborator settles with
Rejected == [kind |-> "rejected", n |-> 0, total |-> 0]
NullValue == [kind |-> "null", n |-> 0, total |-> 0]
GeoValue == [kind |-> "value", n |-> 0, total |-> 0]
\* { error: `API error: ${res.status}` }, n being the status
ApiError(status) == [kind |-> "error", n |-> status, total |-> 0]
EventsPage(n, total) == [kind |-> "page", n |-> n, total |-> total]
NoPage == [kind |-> "none", n |-> 0, total |-> 0]

\* geocode.ts:34-58; found tells whether Nominatim listed a place
GeocodeReplies ==
    {[http |-> "cached", found |-> TRUE]}
        \cup [http : HttpOutcomes, found : BOOLEAN]
geocodeCity(reply) ==
    CASE reply.http = "cached" -> GeoValue
      [] reply.http = "threw" -> Rejected
      [] reply.http = "notOk" -> NullValue
      [] OTHER -> IF reply.found THEN GeoValue ELSE NullValue

\* search helpers (unnamed/part_001:135-178 and 194-235): a page of n events
\* of which upstream counts total
searchEvents(reply) ==
    CASE reply.http = "cached" -> EventsPage(reply.n, reply.total)
      [] reply.http = "threw" -> Rejected
      [] reply.http = "notOk" -> ApiError(reply.n)
      [] OTHER -> EventsPage(reply.n, reply.total)

\* event.tournament_phases: absent, or phases whose rounds may be absent
NoPhases == [present |-> FALSE, phases |-> <<>>]
Phases(list) == [present |-> TRUE, phases |-> list]
NoRounds == [present |-> FALSE, rounds |-> <<>>]
Rounds(list) == [present |-> TRUE, rounds |-> list]
PhaseShapes ==
    {NoPhases,
     Phases(<<Rounds(<<1>>)>>),
     Phases(<<Rounds(<<1>>), Rounds(<<1>>)>>),
     Phases(<<Rounds(<<1, 2>>), NoRounds, Rounds(<<1>>)>>)}

\* ttlCache.ts:254-256: the reduce over the phases from the n-th on
RECURSIVE SumRounds(_, _)
SumRounds(phases, n) ==
    IF n > Len(phases) THEN 0
    ELSE (IF phases[n].present THEN Len(phases[n].rounds) ELSE 0)
             + SumRounds(phases, n + 1)
TotalRounds(event) ==
    IF event.tournament_phases.present
    THEN SumRounds(event.tournament_phases.phases, 1) ELSE 0

\* ttlCache.ts:257  totalRounds >= minRounds
MeetsMinRoundsStrict(event, minRounds) == TotalRounds(event) > minRounds
MeetsMinRounds(event, minRounds) == TotalRounds(event) >= minRounds

\* ttlCache.ts:248-259 (an absent minRounds and 0 are both falsy)
filterByMinRounds(evs, minRounds) ==
    IF minRounds = NoNum \/ minRounds = 0 THEN evs
    ELSE SelectSeq(evs, LAMBDA es : MeetsMinRounds(es.event, minRounds))

\* The standings upstream holds for an event that has them: player 1 plays
\* every event, and a guest of the event, under one of four names, comes
\* second.
GuestName(k) ==
    CASE k = 0 -> "guest0" [] k = 1 -> "guest1" [] k = 2 -> "guest2"
      [] OTHER -> "guest3"
ListedStandings(eventId) ==
    <<StandingEntry(1, "ann", NoName, NoName, 1, NoNum, 2, 0, NoRecord),
      StandingEntry(10 + eventId, GuestName(eventId % 4), NoName,
                    NoName, 2, NoNum, 1, 1, NoRecord)>>

\* How the resolution of one event's standings ends, and the phases of the
\* event it resolves with: getEventStandings returns {event, standings} or
\* null or throws (api.ts:508-557); the bot's returns {error} instead of
\* throwing (bot/playhub.ts:634-683).
EventOutcomes(surface) ==
    [res : {"value"}, phases : PhaseShapes]
        \cup [res : {"null", IF surface = "core" THEN "threw" ELSE "error"},
              phases : {NoPhases}]
DefaultOutcome ==
    [res |-> "value", phases |-> Phases(<<Rounds(<<1, 2, 3>>)>>)]

\* api.ts:599-605 / bot/playhub.ts:847-853: the op on one event
EventOp(eventId, outcome) ==
    CASE outcome.res = "value" ->
             EventStandings([id |-> eventId, tournament_phases |-> outcome.phases],
                            ListedStandings(eventId))
      [] outcome.res = "error" -> ErrorSlot
      [] OTHER -> Null

\* bot/playhub.ts:857  one && !('error' in one) && one !== null
IsKeptBot(one) == one # Null /\ one # UndefinedSlot /\ one # ErrorSlot

\* fetchAllEventStandings (api.ts:594-615, bot/playhub.ts:841-862) on the
\* listed events, the runner having resolved with the op's value per event
fetchAllEventStandingsAllOrNothing(surface, eventIds, outcomes) ==
    LET raw == [n \in DOMAIN eventIds |-> EventOp(eventIds[n], outcomes[n])]
    IN  IF \E n \in DOMAIN raw : raw[n].kind # "value" THEN <<>> ELSE raw
fetchAllEventStandings(surface, eventIds, outcomes) ==
    LET raw == [n \in DOMAIN eventIds |-> EventOp(eventIds[n], outcomes[n])]
    IN  IF surface = "core" THEN Collect(raw) ELSE SelectSeq(raw, IsKeptBot)

\* what the promise of a leaderboard call settles with
NotSettled ==
    [kind |-> "none", error |-> NoDateError, players |-> <<>>,
     eventsAnalyzed |-> 0, eventsIncluded |-> <<>>]
Rejection == [NotSettled EXCEPT !.kind = "rejected"]
ErrorResult(err) == [NotSettled EXCEPT !.kind = "error", !.error = err]
\* ttlCache.ts:147-157: eventsIncluded is kept as the ids of its events
LeaderboardResult(players, evs) ==
    [kind |-> "result", error |-> NoDateError, players |-> players,
     eventsAnalyzed |-> Len(evs),
     eventsIncluded |-> [n \in DOMAIN evs |-> evs[n].event.id]]

Max(a, b) == IF a >= b THEN a ELSE b
\* ttlCache.ts:103, 111  Math.min(MAX_LEADERBOARD_LIMIT, Math.max(1, limit))
LimitCapAtLeastOne(limit) ==
    Max(1, IF limit = NoNum THEN DEFAULT_LIMIT ELSE limit)
LimitCap(limit) ==
    Min(MAX_LEADERBOARD_LIMIT, Max(1, IF limit = NoNum THEN DEFAULT_LIMIT ELSE limit))
\* ttlCache.ts:103, 112  Math.max(1, minEvents)
MinEventsCap(minEvents) ==
    Max(1, IF minEvents = NoNum THEN DEFAULT_MIN_EVENTS ELSE minEvents)

\* the calendar days the dates of a leaderboard call name
LbDates == {NotADate, 0, 400}
\* the (limit, minEvents) pairs of the calls of the model, as given
LbShapes == {<<NoNum, NoNum>>, <<150, NoNum>>, <<0, NoNum>>, <<NoNum, 2>>,
             <<0, 0>>}

\* ttlCache.ts:98-105, 175-181: the call
LbStart ==
    /\ lbSurface \in Surfaces
    /\ lbScope \in {"city", "store"}
    /\ lbStart \in {NotADate, 0, 1}
    /\ lbEnd \in LbDates
    /\ lbMinRounds \in IF lbSurface = "core" THEN {NoNum, 0, 2} ELSE {NoNum}
    /\ \E shape \in LbShapes : lbLimit = shape[1] /\ lbMinEvents = shape[2]
    /\ lbPc = "called"
    /\ lbPage = 1
    /\ lbAllEvents = <<>>
    /\ lbCalls = <<>>
    /\ lbLastPage = NoPage
    /\ lbFetched = <<>>
    /\ lbOutcomes = <<>>
    /\ lbRet = NotSettled

LbIdle ==
    /\ lbSurface = "core"
    /\ lbScope = "city"
    /\ lbStart = NotADate
    /\ lbEnd = NotADate
    /\ lbMinRounds = NoNum
    /\ lbLimit = NoNum
    /\ lbMinEvents = NoNum
    /\ lbPc = "called"
    /\ lbPage = 1
    /\ lbAllEvents = <<>>
    /\ lbCalls = <<>>
    /\ lbLastPage = NoPage
    /\ lbFetched = <<>>
    /\ lbOutcomes = <<>>
    /\ lbRet = NotSettled

LbParams == <<lbSurface, lbScope, lbStart, lbEnd, lbMinRounds, lbLimit,
              lbMinEvents>>

\* the search helper of the scope
SearchCall == IF lbScope = "city" THEN "searchEventsByCoords"
              ELSE "searchEventsByStore"

\* return {error}: the promise resolves with an error value
ReturnError(err) ==
    /\ lbPc' = "returned"
    /\ lbRet' = ErrorResult(err)
    /\ UNCHANGED <<lbPage, lbAllEvents, lbCalls, lbOutcomes>>

\* an awaited collaborator rejected and nothing catches it: the promise of
\* the leaderboard call rejects
Propagate ==
    /\ lbPc' = "rejected"
    /\ lbRet' = Rejection
    /\ UNCHANGED <<lbPage, lbAllEvents, lbCalls, lbOutcomes>>

\* ttlCache.ts:119-128, 191-199: request the given page of the listing
RequestPage(page) ==
    /\ lbPc' = "awaitPage"
    /\ lbPage' = page
    /\ lbCalls' = Append(lbCalls, SearchCall)
    /\ UNCHANGED <<lbOutcomes, lbRet>>

\* ttlCache.ts:107-128, 183-199: from the call to its first await
EnterCallFirst(dateError) ==
    /\ lbCalls' = Append(lbCalls, IF lbScope = "city" THEN "geocodeCity"
                                  ELSE SearchCall)
    /\ lbPc' = IF dateError # NoDateError THEN "returned"
               ELSE IF lbScope = "city" THEN "awaitGeocode" ELSE "awaitPage"
    /\ lbRet' = IF dateError # NoDateError THEN ErrorResult(dateError)
                ELSE lbRet
    /\ UNCHANGED <<lbPage, lbAllEvents, lbOutcomes>>
EnterAfterValidation(dateError) ==
    IF dateError # NoDateError
    THEN ReturnError(dateError)
    ELSE IF lbScope = "city"
    THEN /\ lbPc' = "awaitGeocode"
         /\ lbCalls' = Append(lbCalls, "geocodeCity")
         /\ UNCHANGED <<lbPage, lbAllEvents, lbOutcomes, lbRet>>
    ELSE RequestPage(1) /\ UNCHANGED lbAllEvents

LbCall ==
    /\ lbPc = "called"
    /\ EnterAfterValidation(validateDateRange(lbStart, lbEnd,
                                              MaxDateRangeDays(lbSurface)))
    /\ UNCHANGED <<LbParams, lbLastPage, lbFetched>>
    /\ UNCHANGED <<runnerVars, fasVars, cacheVars, gesVars, dateVars, aggVars>>
    /\ UNCHANGED <<retryVars, esVars, accVars>>

\* ttlCache.ts:114-128: the awaited geocodeCity settles
GeocodeSettled ==
    /\ lbPc = "awaitGeocode"
    /\ \E reply \in GeocodeReplies :
          LET geo == geocodeCity(reply)
          IN  CASE geo = Rejected -> Propagate
                [] geo = NullValue ->
                       ReturnError(DateError("Could not find location", 0))
                [] OTHER -> RequestPage(1) /\ UNCHANGED lbAllEvents
    /\ UNCHANGED <<LbParams, lbLastPage, lbFetched>>
    /\ UNCHANGED <<runnerVars, fasVars, cacheVars, gesVars, dateVars, aggVars>>
    /\ UNCHANGED <<retryVars, esVars, accVars>>

\* The replies to the request of a page, allEvents holding `have` events:
\* a failure, a non-OK status (in n), or a page that is short or full while
\* upstream counts no event, the events listed so far, or one more. Full
\* pages are served to the calls that leave minEvents and minRounds out and
\* give no limit or one above the cap; the last page of the model ends the
\* listing, and the short page after a full one comes with the right count.
PageSizes ==
    (0..MaxPageEvents) \cup
        (IF lbLimit \in {NoNum, 150} /\ lbMinEvents = NoNum
               /\ lbMinRounds = NoNum
         THEN {LEADERBOARD_PAGE_SIZE} ELSE {})
PageReplies(page, have) ==
    [http : {"threw"}, n : {0}, total : {0}]
        \cup [http : {"notOk"}, n : {404, 500}, total : {0}]
        \cup UNION {[http : IF have = 0 THEN {"ok", "cached"} ELSE {"ok"},
                     n : {size},
                     total : IF have = 0 THEN {0, size, size + 1}
                             ELSE {have + size}] :
                       size \in 0..MaxPageEvents}
        \cup (IF LEADERBOARD_PAGE_SIZE \in PageSizes
              THEN [http : {"ok"}, n : {LEADERBOARD_PAGE_SIZE},
                    total : {0, have + LEADERBOARD_PAGE_SIZE} \cup
                            (IF page < MaxPages
                             THEN {have + LEADERBOARD_PAGE_SIZE + 1} ELSE {})]
              ELSE {})

\* ttlCache.ts:133  result.events.length === 100 && result.total > allEvents.length
HasMoreIgnoringTotal(n, total, have) == n = LEADERBOARD_PAGE_SIZE
HasMore(n, total, have) == n = LEADERBOARD_PAGE_SIZE /\ total > have

\* ttlCache.ts:137-143: past the loop
AfterListingNoEmptyCheck(events) ==
    /\ lbPc' = "awaitStandings"
    /\ lbCalls' = Append(lbCalls, "fetchAllEventStandings")
    /\ UNCHANGED <<lbPage, lbOutcomes, lbRet>>
AfterListing(events) ==
    IF Len(events) = 0
    THEN /\ lbPc' = "returned"
         /\ lbRet' = ErrorResult(
                DateError("No past or in-progress events found", 0))
         /\ UNCHANGED <<lbPage, lbCalls, lbOutcomes>>
    ELSE /\ lbPc' = "awaitStandings"
         /\ lbCalls' = Append(lbCalls, "fetchAllEventStandings")
         /\ UNCHANGED <<lbPage, lbOutcomes, lbRet>>

\* ttlCache.ts:129  if ("error" in result) return result
PageErrorSkipped(result) ==
    /\ lbAllEvents' = lbAllEvents
    /\ AfterListing(lbAllEvents)
PageError(result) ==
    /\ lbPc' = "returned"
    /\ lbRet' = ErrorResult(DateError("API error", result.n))
    /\ UNCHANGED <<lbPage, lbAllEvents, lbCalls, lbOutcomes>>

\* the events upstream serves on a page, n of them: event k of page p is
\* numbered (p - 1) * 100 + k
EventsOfPage(page, n) ==
    [k \in 1..n |-> (page - 1) * LEADERBOARD_PAGE_SIZE + k]

\* ttlCache.ts:129-143, 200-215: the awaited search helper settles
PageSettled ==
    /\ lbPc = "awaitPage"
    /\ \E reply \in PageReplies(lbPage, Len(lbAllEvents)) :
          LET result == searchEvents(reply)
              events == IF result.kind = "page"
                        THEN lbAllEvents \o EventsOfPage(lbPage, result.n)
                        ELSE lbAllEvents
          IN  /\ lbLastPage' = result
              /\ lbFetched' =
                     IF result.kind = "page"
                     THEN Append(lbFetched, [page |-> lbPage, n |-> result.n,
                                             total |-> result.total])
                     ELSE lbFetched
              /\ CASE result = Rejected -> Propagate
                   [] result.kind = "error" -> PageError(result)
                   [] OTHER ->
                        /\ lbAllEvents' = events
                        /\ IF HasMore(result.n, result.total, Len(events))
                           THEN RequestPage(lbPage + 1)
                           ELSE AfterListing(events)
    /\ UNCHANGED LbParams
    /\ UNCHANGED <<runnerVars, fasVars, cacheVars, gesVars, dateVars, aggVars>>
    /\ UNCHANGED <<retryVars, esVars, accVars>>

\* ttlCache.ts:104  sortBy = "total_wins": the calls of the model leave
\* sortBy out
DefaultSortBy == "total_wins"

\* ttlCache.ts:144: the bot's leaderboard has no minRounds
FilteredStandings(evs) ==
    IF lbSurface = "core" THEN filterByMinRounds(evs, lbMinRounds) ELSE evs

\* ttlCache.ts:143-157, 215-229: the awaited fetchAllEventStandings
\* resolves. The events of a listing of at most MaxPageEvents events resolve
\* in any way, those of a longer listing with standings.
StandingsSettled ==
    /\ lbPc = "awaitStandings"
    /\ \E outs \in [1..(IF Len(lbAllEvents) <= MaxPageEvents
                           THEN Len(lbAllEvents) ELSE 0) ->
                        EventOutcomes(lbSurface)] :
          /\ lbOutcomes' = [n \in DOMAIN lbAllEvents |->
                               IF n \in DOMAIN outs THEN outs[n]
                               ELSE DefaultOutcome]
          /\ LET filteredStandings ==
                     FilteredStandings(fetchAllEventStandings(
                         lbSurface, lbAllEvents, lbOutcomes'))
                 players == aggregateStandingsToPlayers(
                                filteredStandings, MinEventsCap(lbMinEvents),
                                DefaultSortBy, LimitCap(lbLimit))
             IN  lbRet' = LeaderboardResult(players, filteredStandings)
    /\ lbPc' = "returned"
    /\ UNCHANGED <<lbPage, lbAllEvents, lbCalls, lbLastPage, lbFetched>>
    /\ UNCHANGED LbParams
    /\ UNCHANGED <<runnerVars, fasVars, cacheVars, gesVars, dateVars, aggVars>>
    /\ UNCHANGED <<retryVars, esVars, accVars>>

LbNext ==
    \/ LbCall
    \/ GeocodeSettled
    \/ PageSettled
    \/ StandingsSettled

(***************************************************************************)
(* fetchWithRetry (bot/fetchWithRetry.ts)                                  *)
(***************************************************************************)
\* a thrown error: the constructor it is an instance of, its name and its
\* message
NoError == [class |-> "none", name |-> "", message |-> <<>>]
\* what fetch rejects with when the request fails: TypeError "fetch failed"
FetchFailed ==
    [class |-> "TypeError", name |-> "TypeError",
     message |-> <<"f", "e", "t", "c", "h", " ", "f", "a", "i", "l", "e", "d">>]
\* what fetch rejects with when controller.abort() fires
Aborted ==
    [class |-> "DOMException", name |-> "AbortError",
     message |-> <<"a", "b", "o", "r", "t", "e", "d">>]
\* a TypeError of another origin, and an Error that is neither
InvalidUrl ==
    [class |-> "TypeError", name |-> "TypeError",
     message |-> <<"I", "n", "v", "a", "l", "i", "d", " ", "U", "R", "L">>]
PrefetchError ==
    [class |-> "Error", name |-> "Error",
     message |-> <<"p", "r", "e", "f", "e", "t", "c", "h">>]

\* String.prototype.includes
Includes(str, sub) ==
    \E i \in 1..(Len(str) - Len(sub) + 1) :
        SubSeq(str, i, i + Len(sub) - 1) = sub

\* bot/fetchWithRetry.ts:21
RETRYABLE_STATUS == {429, 502, 503, 504}

\* bot/fetchWithRetry.ts:23-27
isRetryableError(err) ==
    \/ err.class = "TypeError" /\ Includes(err.message, <<"f", "e", "t", "c", "h">>)
    \/ err.class \in {"TypeError", "DOMException", "Error"}
           /\ err.name = "AbortError"

\* what one fetch, or the whole call, settles with
Response(status) == [kind |-> "response", status |-> status, error |-> NoError]
Thrown(err) == [kind |-> "error", status |-> 0, error |-> err]
NoOutcome == [kind |-> "none", status |-> 0, error |-> NoError]
\* Response.ok
Ok(status) == status >= 200 /\ status <= 299

\* the ways one fetch settles
FetchOutcomes ==
    {Response(st) : st \in {200, 204, 404, 429, 500, 502, 503, 504}}
        \cup {Thrown(err) : err \in {FetchFailed, Aborted, InvalidUrl,
                                      PrefetchError}}

\* bot/fetchWithRetry.ts:48  maxRetries = DEFAULT_MAX_RETRIES
MaxRetriesOf(given) == IF given = NoNum THEN DEFAULT_MAX_RETRIES ELSE given

RetryStart ==
    /\ rtMaxRetries \in {NoNum} \cup (0..MaxRetriesGiven)
    /\ rtRetryDelayMs \in {NoNum, 0, 250}
    /\ rtSleeps = <<>>
    /\ rtPc = "called"
    /\ rtAttempt = 0
    /\ rtLastError = NoError
    /\ rtLog = <<>>
    /\ rtRet = NoOutcome

RetryIdle ==
    /\ rtMaxRetries = NoNum
    /\ rtRetryDelayMs = NoNum
    /\ rtSleeps = <<>>
    /\ rtPc = "called"
    /\ rtAttempt = 0
    /\ rtLastError = NoError
    /\ rtLog = <<>>
    /\ rtRet = NoOutcome

\* bot/fetchWithRetry.ts:54  the loop test with the given attempt number,
\* and what follows: the next fetch (55-62), or throw lastError (99)
EnterAttempt(attempt) ==
    /\ rtAttempt' = attempt
    /\ IF attempt <= MaxRetriesOf(rtMaxRetries)
       THEN rtPc' = "awaitFetch" /\ rtRet' = rtRet
       ELSE rtPc' = "threw" /\ rtRet' = Thrown(rtLastError)

\* bot/fetchWithRetry.ts:46-62: from the call to the first await
RetryCall ==
    /\ rtPc = "called"
    /\ EnterAttempt(0)
    /\ UNCHANGED <<rtMaxRetries, rtRetryDelayMs, rtLastError, rtLog, rtSleeps>>
    /\ UNCHANGED <<runnerVars, fasVars, cacheVars, gesVars, dateVars, aggVars>>
    /\ UNCHANGED <<lbVars, esVars, accVars>>

\* bot/fetchWithRetry.ts:66  attempt < maxRetries && RETRYABLE_STATUS.has(res.status)
shouldRetryAnyStatus(attempt, maxRetries, status) == attempt < maxRetries
shouldRetry(attempt, maxRetries, status) ==
    attempt < maxRetries /\ status \in RETRYABLE_STATUS

\* Math.pow(2, n) for a loop counter n
RECURSIVE Pow2(_)
Pow2(n) == IF n <= 0 THEN 1 ELSE 2 * Pow2(n - 1)

\* bot/fetchWithRetry.ts:49, 68, 84  retryDelayMs * Math.pow(2, attempt)
RetryDelayLinear(retryDelayMs, attempt) ==
    (IF retryDelayMs = NoNum THEN DEFAULT_RETRY_DELAY_MS ELSE retryDelayMs)
        * (attempt + 1)
RetryDelay(retryDelayMs, attempt) ==
    (IF retryDelayMs = NoNum THEN DEFAULT_RETRY_DELAY_MS ELSE retryDelayMs)
        * Pow2(attempt)

\* bot/fetchWithRetry.ts:63-96: the awaited fetch settles, with a response
\* or by throwing (a timeout throws the abort error); the sleep before a
\* retry starts with its delay
FetchSettled ==
    /\ rtPc = "awaitFetch"
    /\ \E outcome \in FetchOutcomes :
          /\ rtLog' = Append(rtLog, outcome)
          /\ IF outcome.kind = "response"
             THEN /\ rtLastError' = rtLastError
                  /\ IF Ok(outcome.status)
                     THEN rtPc' = "returned" /\ rtRet' = outcome
                     ELSE IF shouldRetry(rtAttempt, MaxRetriesOf(rtMaxRetries),
                                         outcome.status)
                     THEN rtPc' = "sleeping" /\ rtRet' = rtRet
                     ELSE rtPc' = "returned" /\ rtRet' = outcome
             ELSE /\ rtLastError' = outcome.error
                  /\ IF rtAttempt < MaxRetriesOf(rtMaxRetries)
                          /\ isRetryableError(outcome.error)
                     THEN rtPc' = "sleeping" /\ rtRet' = rtRet
                     ELSE rtPc' = "threw" /\ rtRet' = Thrown(outcome.error)
          /\ rtSleeps' =
                 IF rtPc' = "sleeping"
                 THEN Append(rtSleeps, RetryDelay(rtRetryDelayMs, rtAttempt))
                 ELSE rtSleeps
    /\ UNCHANGED <<rtMaxRetries, rtRetryDelayMs, rtAttempt>>
    /\ UNCHANGED <<runnerVars, fasVars, cacheVars, gesVars, dateVars, aggVars>>
    /\ UNCHANGED <<lbVars, esVars, accVars>>

\* bot/fetchWithRetry.ts:76-77, 92-93, 54: the awaited sleep is over;
\* continue runs attempt++ and the loop test
SleepOver ==
    /\ rtPc = "sleeping"
    /\ EnterAttempt(rtAttempt + 1)
    /\ UNCHANGED <<rtMaxRetries, rtRetryDelayMs, rtLastError, rtLog, rtSleeps>>
    /\ UNCHANGED <<runnerVars, fasVars, cacheVars, gesVars, dateVars, aggVars>>
    /\ UNCHANGED <<lbVars, esVars, accVars>>

RetryNext ==
    \/ RetryCall
    \/ FetchSettled
    \/ SleepOver

(***************************************************************************)
(* expandStatusesForApi (api.ts)                                           *)
(***************************************************************************)
\* api.ts:49
API_STATUSES == <<"upcoming", "inProgress", "past">>

\* the strings a statuses array of the model holds
StatusNames == {"upcoming", "inProgress", "past", "all", "cancelled"}

\* api.ts:52-55
expandStatusesForApiFilterOnly(statuses) ==
    SelectSeq(statuses, LAMBDA st : st # "all")
expandStatusesForApi(statuses) ==
    IF Len(statuses) = 0 \/ \E n \in DOMAIN statuses : statuses[n] = "all"
    THEN API_STATUSES
    ELSE SelectSeq(statuses, LAMBDA st : st # "all")

EsStart ==
    /\ esStatuses \in UNION {[1..n -> StatusNames] : n \in 0..MaxStatuses}
    /\ esPc = "called"
    /\ esRet = <<>>

EsIdle ==
    /\ esStatuses = <<>>
    /\ esPc = "called"
    /\ esRet = <<>>

\* the call returns
ExpandStatuses ==
    /\ esPc = "called"
    /\ esRet' = expandStatusesForApi(esStatuses)
    /\ esPc' = "returned"
    /\ UNCHANGED esStatuses
    /\ UNCHANGED <<runnerVars, fasVars, cacheVars, gesVars, dateVars, aggVars>>
    /\ UNCHANGED <<lbVars, retryVars, accVars>>

EsNext == ExpandStatuses

(***************************************************************************)
(* The cached accessors fetchEventDetails, fetchTournamentRoundStandings   *)
(* and fetchAllRoundStandings (api.ts)                                     *)
(***************************************************************************)
\* api.ts:152-154: the three caches are created with the same maxSize; the
\* model runs them with the small maxSize of the run in place of
\* CACHE_MAX_SIZE (1000).
AccessorNames ==
    {"fetchEventDetails", "fetchTournamentRoundStandings",
     "fetchAllRoundStandings"}
Calls == 1..MaxCalls
EventIds == 1..MaxEventId
\* the round the standings calls of a run ask for
RoundAsked == 7

\* String(n) and the `${n}` of a template literal, for a natural number
DecimalDigits == <<"0", "1", "2", "3", "4", "5", "6", "7", "8", "9">>
RECURSIVE String(_)
String(n) ==
    IF n < 10 THEN DecimalDigits[n + 1]
    ELSE String(n \div 10) \o DecimalDigits[(n % 10) + 1]

\* ttlCache.ts:36-48: what get(key) returns at time t, the value in a
\* 1-tuple or <<>> for undefined, and the Map it leaves
GetValue(s, k, t) ==
    IF Has(s, k) /\ ~GetExpired(Entry(s, k), t)
    THEN <<Entry(s, k).value>> ELSE <<>>
StoreAfterGet(s, k, t) ==
    IF ~Has(s, k) THEN s
    ELSE IF GetExpired(Entry(s, k), t) THEN Delete(s, k)
    ELSE GetRefresh(s, k)

\* the events upstream can serve for an id: display_status and
\* settings.event_lifecycle_status, either of which may be absent
Event(id, display_status, lifecycle) ==
    [id |-> id, display_status |-> display_status,
     event_lifecycle_status |-> lifecycle]
EventStatusShapes ==
    {<<"past", NoName>>, <<"Past", NoName>>, <<"inProgress", "completed">>,
     <<"upcoming", "past">>, <<"inProgress", "active">>, <<NoName, NoName>>}
EventsServed(id) == {Event(id, sh[1], sh[2]) : sh \in EventStatusShapes}

\* api.ts:157-161
isEventCompletedByStatusOnly(event) ==
    LET status == ToLowerCase(event.display_status)
    IN  status = "past"
isEventCompleted(event) ==
    LET status == ToLowerCase(event.display_status)
        lifecycle == ToLowerCase(event.event_lifecycle_status)
    IN  status = "past" \/ lifecycle = "completed" \/ lifecycle = "past"

\* api.ts:163-165
cacheTtlForEvent(event) ==
    IF isEventCompleted(event) THEN CACHE_TTL_PAST_MS ELSE CACHE_TTL_LIVE_MS

\* what the awaited fetchWithRetry of an accessor settles with: it throws,
\* or resolves with a response that is not OK, or with an OK response whose
\* JSON body is given
FetchThrew == [kind |-> "threw", body |-> <<>>]
FetchNotOk == [kind |-> "notOk", body |-> <<>>]
FetchOk(body) == [kind |-> "ok", body |-> <<body>>]

\* the standing entries of a round are numbered by their place in the list
PageEntries(page, size, k) == [i \in 1..k |-> (page - 1) * size + i]

\* a StandingsResponse of the paginated endpoint: page `page` of size
\* `size` holding k entries, with the total and next page it names
UpstreamPage(page, size, k, total, next) ==
    [count |-> k, total |-> total, page_size |-> size,
     current_page_number |-> page, next_page_number |-> next,
     previous_page_number |-> IF page > 1 THEN page - 1 ELSE NoNum,
     results |-> PageEntries(page, size, k)]

\* what the paginated request of a page can settle with: an empty page
\* (total absent, 0 or positive), a page of one entry or a full page (with
\* or without a next page)
PaginatedReplies(page, size) ==
    {FetchThrew, FetchNotOk}
        \cup {FetchOk(UpstreamPage(page, size, 0, total, NoNum)) :
                  total \in {NoNum, 0, 5}}
        \cup {FetchOk(UpstreamPage(page, size, k, (page - 1) * size + k, next)) :
                  k \in {1, size}, next \in {NoNum, page + 1}}

\* what the unpaginated request can settle with: the payload has no
\* standings field, or a list of none, one or one more than a page
UnpaginatedReplies(size) ==
    {FetchThrew, FetchNotOk, FetchOk([has |-> FALSE, standings |-> <<>>])}
        \cup {FetchOk([has |-> TRUE, standings |-> PageEntries(1, n, n)]) :
                  n \in {0, 1, size + 1}}

\* api.ts:411-431
paginateStandings(standings, page, pageSize) ==
    LET safePage == Max(1, page)
        safePageSize == Max(1, pageSize)
        total == Len(standings)
        startIndex == (safePage - 1) * safePageSize
        slice == SubSeq(standings, startIndex + 1,
                        Min(total, startIndex + safePageSize))
        totalPages == Max(1, (total + safePageSize - 1) \div safePageSize)
    IN  [count |-> Len(slice), total |-> total, page_size |-> safePageSize,
         current_page_number |-> safePage,
         next_page_number |->
             IF safePage < totalPages THEN safePage + 1 ELSE NoNum,
         previous_page_number |->
             IF safePage > 1 /\ safePage <= totalPages
             THEN safePage - 1 ELSE NoNum,
         results |-> slice]

\* a call that has not been made, and one just made with its arguments
NoCall ==
    [pc |-> "idle", id |-> 0, page |-> 0, pageSize |-> 0,
     isPastEvent |-> FALSE, all |-> <<>>, hasMore |-> FALSE, held |-> <<>>,
     reply |-> <<>>, ret |-> <<>>]
NewCall(id, page, pageSize, isPastEvent) ==
    [NoCall EXCEPT !.pc = "called", !.id = id, !.page = page,
                   !.pageSize = pageSize, !.isPastEvent = isPastEvent]

\* the state the steps of a call work on
AccState ==
    [calls |-> acCalls, details |-> acDetails, paginated |-> acPaginated,
     full |-> acFull, requests |-> acRequests, pageCalls |-> acPageCalls,
     sets |-> acSets, lastSet |-> acLastSet]
Becomes(st) ==
    /\ acCalls' = st.calls
    /\ acDetails' = st.details
    /\ acPaginated' = st.paginated
    /\ acFull' = st.full
    /\ acRequests' = st.requests
    /\ acPageCalls' = st.pageCalls
    /\ acSets' = st.sets
    /\ acLastSet' = st.lastSet

\* what a reply is remembered as: its kind and, of an OK reply, how many
\* standing entries its body lists
ReplySeen(reply) ==
    <<reply.kind,
      IF reply.kind # "ok" THEN 0
      ELSE IF "results" \in DOMAIN reply.body[1]
      THEN Len(reply.body[1].results)
      ELSE IF "standings" \in DOMAIN reply.body[1]
      THEN Len(reply.body[1].standings)
      ELSE 0>>
Replied(st, c, reply) == [st EXCEPT !.calls[c].reply = ReplySeen(reply)]

\* the promise of call c resolves with v, or rejects
CallReturns(st, c, v) ==
    [st EXCEPT !.calls[c].pc = "returned", !.calls[c].ret = <<v>>]
CallThrows(st, c) == [st EXCEPT !.calls[c].pc = "threw"]

\* an upstream request, and a set on a cache, as the logs keep them
Request(c, url) == [call |-> c, url |-> url]
SetOf(c, cache, key) == [call |-> c, cache |-> cache, key |-> key]
NoSetYet == [call |-> 0, cache |-> "", key |-> "", at |-> 0, expiresAt |-> 0]
SetAt(c, cache, key, t, ttl) ==
    [call |-> c, cache |-> cache, key |-> key, at |-> t, expiresAt |-> t + ttl]

\* api.ts:331-338: fetchEventDetails up to its first await
DetailsEnterCoalescing(st, c) ==
    LET id == st.calls[c].id
        key == String(id)
        cached == GetValue(st.details, key, acNow)
        got == [st EXCEPT !.details = StoreAfterGet(st.details, key, acNow)]
        pending == \E d \in Calls :
                      st.calls[d].pc = "awaitDetails" /\ st.calls[d].id = id
    IN  IF cached # <<>> THEN CallReturns(got, c, cached[1])
        ELSE [got EXCEPT !.calls[c].pc = "awaitDetails",
                         !.requests = IF pending THEN @
                                      ELSE Append(@, Request(c, <<"events", id>>))]
DetailsEnter(st, c) ==
    LET id == st.calls[c].id
        key == String(id)
        cached == GetValue(st.details, key, acNow)
        got == [st EXCEPT !.details = StoreAfterGet(st.details, key, acNow)]
    IN  IF cached # <<>> THEN CallReturns(got, c, cached[1])
        ELSE [got EXCEPT !.calls[c].pc = "awaitDetails",
                         !.requests = Append(@, Request(c, <<"events", id>>))]

\* api.ts:338-345: fetchEventDetails from the settling of its request
DetailsLeave(st, c, reply) ==
    IF reply.kind # "ok" THEN CallThrows(st, c)
    ELSE LET event == reply.body[1]
             key == String(st.calls[c].id)
             ttl == cacheTtlForEvent(event)
         IN  CallReturns(
                 [st EXCEPT !.details = StoreAfterSet(@, key, event, ttl, acNow),
                            !.sets = Append(@, SetOf(c, "eventDetails", key)),
                            !.lastSet = SetAt(c, "eventDetails", key, acNow, ttl)],
                 c, event)

RECURSIVE PageEnter(_, _)
RECURSIVE AllLoop(_, _)

\* api.ts:480-482: the loop body of fetchAllRoundStandings after the await
AllTake(st, c, response) ==
    [st EXCEPT !.calls[c].all = @ \o response.results,
               !.calls[c].hasMore =
                   /\ response.next_page_number # NoNum
                   /\ Len(response.results) = STANDINGS_PAGE_SIZE,
               !.calls[c].page = @ + 1]

\* a call of fetchTournamentRoundStandings returns: to its caller, or into
\* the loop of the fetchAllRoundStandings call that made it
PageReturns(st, c, response) ==
    IF acFn = "fetchAllRoundStandings"
    THEN AllLoop(AllTake(st, c, response), c)
    ELSE CallReturns(st, c, response)

\* api.ts:375-386: fetchTournamentRoundStandings up to its first await
PageEnter(st, c) ==
    LET call == st.calls[c]
        safePage == Max(1, call.page)
        safePageSize == Max(1, call.pageSize)
        cacheKey == String(call.id) \o "-" \o String(safePage)
                        \o "-" \o String(safePageSize)
        cached == GetValue(st.paginated, cacheKey, acNow)
        got == [st EXCEPT !.paginated = StoreAfterGet(@, cacheKey, acNow),
                          !.pageCalls = Append(@, [call |-> c,
                                                   page |-> call.page,
                                                   pageSize |-> call.pageSize])]
    IN  IF cached # <<>> THEN PageReturns(got, c, cached[1])
        ELSE [got EXCEPT !.calls[c].pc = "awaitPaginated",
                         !.requests =
                             Append(@, Request(c, <<"paginated", call.id,
                                                    safePage, safePageSize>>))]

\* api.ts:406-408: the response is cached with the TTL of the call and
\* returned
PageStoreLiveTtl(st, c, paginated) ==
    LET call == st.calls[c]
        cacheKey == String(call.id) \o "-" \o String(Max(1, call.page))
                        \o "-" \o String(Max(1, call.pageSize))
        ttl == CACHE_TTL_LIVE_MS
    IN  PageReturns(
            [st EXCEPT !.paginated =
                           StoreAfterSet(@, cacheKey, paginated, ttl, acNow),
                       !.sets = Append(@, SetOf(c, "paginated", cacheKey)),
                       !.lastSet = SetAt(c, "paginated", cacheKey, acNow, ttl),
                       !.calls[c].held = <<>>],
            c, paginated)
PageStore(st, c, paginated) ==
    LET call == st.calls[c]
        cacheKey == String(call.id) \o "-" \o String(Max(1, call.page))
                        \o "-" \o String(Max(1, call.pageSize))
        ttl == IF call.isPastEvent THEN CACHE_TTL_PAST_MS
               ELSE CACHE_TTL_LIVE_MS
    IN  PageReturns(
            [st EXCEPT !.paginated =
                           StoreAfterSet(@, cacheKey, paginated, ttl, acNow),
                       !.sets = Append(@, SetOf(c, "paginated", cacheKey)),
                       !.lastSet = SetAt(c, "paginated", cacheKey, acNow, ttl),
                       !.calls[c].held = <<>>],
            c, paginated)

\* api.ts:386-397: fetchTournamentRoundStandings from the settling of the
\* paginated request: it throws, or asks the unpaginated endpoint, or
\* goes on to cache the response
PaginatedLeave(st, c, reply) ==
    IF reply.kind # "ok" THEN CallThrows(st, c)
    ELSE LET paginated == reply.body[1]
             total == IF paginated.total = NoNum THEN 0 ELSE paginated.total
         IN  IF Len(paginated.results) = 0 /\ total = 0
             THEN [st EXCEPT !.calls[c].pc = "awaitUnpaginated",
                             !.calls[c].held = <<paginated>>,
                             !.requests =
                                 Append(@, Request(c, <<"unpaginated",
                                                        st.calls[c].id>>))]
             ELSE PageStore(st, c, paginated)

\* api.ts:434-440: what fetchTournamentRoundStandingsUnpaginated returns
\* for a response
UnpaginatedStandings(reply) ==
    IF reply.kind # "ok" THEN <<>>
    ELSE IF reply.body[1].has THEN reply.body[1].standings ELSE <<>>

\* api.ts:397-408: fetchTournamentRoundStandings from the settling of the
\* unpaginated request; a throw is caught and leaves the empty response
UnpaginatedLeave(st, c, reply) ==
    LET call == st.calls[c]
        fullStandings == IF reply.kind = "threw" THEN <<>>
                         ELSE UnpaginatedStandings(reply)
        paginated == IF Len(fullStandings) > 0
                     THEN paginateStandings(fullStandings, Max(1, call.page),
                                            Max(1, call.pageSize))
                     ELSE call.held[1]
    IN  PageStore(st, c, paginated)

\* api.ts:485-490: fetchAllRoundStandings after its loop
AllLeaveCachingAlways(st, c) ==
    LET call == st.calls[c]
        cacheKey == String(call.id)
        ttl == IF call.isPastEvent THEN CACHE_TTL_PAST_MS
               ELSE CACHE_TTL_LIVE_MS
    IN  CallReturns(
            [st EXCEPT !.full = StoreAfterSet(@, cacheKey, call.all, ttl, acNow),
                       !.sets = Append(@, SetOf(c, "full", cacheKey)),
                       !.lastSet = SetAt(c, "full", cacheKey, acNow, ttl)],
            c, call.all)
AllLeave(st, c) ==
    LET call == st.calls[c]
        cacheKey == String(call.id)
        ttl == IF call.isPastEvent THEN CACHE_TTL_PAST_MS
               ELSE CACHE_TTL_LIVE_MS
    IN  IF Len(call.all) > 0
        THEN CallReturns(
                 [st EXCEPT !.full = StoreAfterSet(@, cacheKey, call.all, ttl,
                                                   acNow),
                            !.sets = Append(@, SetOf(c, "full", cacheKey)),
                            !.lastSet = SetAt(c, "full", cacheKey, acNow, ttl)],
                 c, call.all)
        ELSE CallReturns(st, c, call.all)

\* api.ts:478-479: the loop test of fetchAllRoundStandings and the call of
\* fetchTournamentRoundStandings it makes, or what follows the loop
AllLoopNoPageCap(st, c) ==
    IF st.calls[c].hasMore
    THEN PageEnter(st, c)
    ELSE AllLeave(st, c)
AllLoop(st, c) ==
    IF st.calls[c].hasMore /\ st.calls[c].page <= STANDINGS_MAX_PAGES
    THEN PageEnter(st, c)
    ELSE AllLeave(st, c)

\* api.ts:464-477: fetchAllRoundStandings up to its loop
AllEnter(st, c) ==
    LET cacheKey == String(st.calls[c].id)
        cached == GetValue(st.full, cacheKey, acNow)
        got == [st EXCEPT !.full = StoreAfterGet(@, cacheKey, acNow)]
    IN  IF cached # <<>> THEN CallReturns(got, c, cached[1])
        ELSE AllLoop([got EXCEPT !.calls[c].all = <<>>,
                                 !.calls[c].page = 1,
                                 !.calls[c].pageSize = STANDINGS_PAGE_SIZE,
                                 !.calls[c].hasMore = TRUE], c)

\* the arguments a call of the run's accessor is made with
CallsAsked ==
    CASE acFn = "fetchEventDetails" ->
             {NewCall(id, 0, 0, FALSE) : id \in EventIds}
      [] acFn = "fetchTournamentRoundStandings" ->
             {NewCall(RoundAsked, page, 2, isPast) :
                  page \in {0, MaxPageAsked}, isPast \in BOOLEAN}
      [] OTHER ->
             {NewCall(RoundAsked, 0, 0, isPast) : isPast \in BOOLEAN}

AccStart ==
    /\ acFn \in AccessorNames
    /\ acNow = 0
    /\ acJumps = 0
    /\ acDetails = <<>>
    /\ acPaginated = <<>>
    /\ acFull = <<>>
    /\ acCalls = [c \in Calls |-> NoCall]
    /\ acRequests = <<>>
    /\ acPageCalls = <<>>
    /\ acSets = <<>>
    /\ acLastSet = NoSetYet

AccIdle ==
    /\ acFn = "fetchEventDetails"
    /\ acNow = 0
    /\ acJumps = 0
    /\ acDetails = <<>>
    /\ acPaginated = <<>>
    /\ acFull = <<>>
    /\ acCalls = [c \in Calls |-> NoCall]
    /\ acRequests = <<>>
    /\ acPageCalls = <<>>
    /\ acSets = <<>>
    /\ acLastSet = NoSetYet

\* the caches of api.ts are bounded (api.ts:148, 152-154)
AccCaches ==
    /\ maxSize \in 1..MaxCapacity
    /\ store = <<>>
    /\ now = 0
    /\ lastOp = [op |-> "create", key |-> "", found |-> "none", ret |-> Absent]
    /\ lastSet = [k \in Keys |-> NoSet]
    /\ capEvicted = {}
    /\ recency = <<>>

\* call c of the accessor is made and runs to its first await; the calls
\* are numbered in the order they are made, and a run follows one call of
\* fetchAllRoundStandings
AccCall(c) ==
    /\ acCalls[c].pc = "idle"
    /\ c > 1 => acCalls[c - 1].pc # "idle"
    /\ acFn = "fetchAllRoundStandings" => c = 1
    /\ \E call \in CallsAsked :
          LET st == [AccState EXCEPT !.calls[c] = call]
          IN  CASE acFn = "fetchEventDetails" -> Becomes(DetailsEnter(st, c))
                [] acFn = "fetchTournamentRoundStandings" ->
                       Becomes(PageEnter(st, c))
                [] OTHER -> Becomes(AllEnter(st, c))
    /\ UNCHANGED <<acFn, acNow, acJumps>>
    /\ UNCHANGED <<runnerVars, fasVars, cacheVars, gesVars, dateVars, aggVars>>
    /\ UNCHANGED <<lbVars, retryVars, esVars>>

\* the request for the event's details settles
DetailsSettled(c) ==
    /\ acCalls[c].pc = "awaitDetails"
    /\ \E reply \in {FetchThrew, FetchNotOk}
                        \cup {FetchOk(e) : e \in EventsServed(acCalls[c].id)} :
          Becomes(DetailsLeave(Replied(AccState, c, reply), c, reply))
    /\ UNCHANGED <<acFn, acNow, acJumps>>
    /\ UNCHANGED <<runnerVars, fasVars, cacheVars, gesVars, dateVars, aggVars>>
    /\ UNCHANGED <<lbVars, retryVars, esVars>>

\* the paginated request settles
PaginatedSettled(c) ==
    /\ acCalls[c].pc = "awaitPaginated"
    /\ \E reply \in PaginatedReplies(Max(1, acCalls[c].page),
                                     Max(1, acCalls[c].pageSize)) :
          Becomes(PaginatedLeave(Replied(AccState, c, reply), c, reply))
    /\ UNCHANGED <<acFn, acNow, acJumps>>
    /\ UNCHANGED <<runnerVars, fasVars, cacheVars, gesVars, dateVars, aggVars>>
    /\ UNCHANGED <<lbVars, retryVars, esVars>>

\* the unpaginated request settles
UnpaginatedSettled(c) ==
    /\ acCalls[c].pc = "awaitUnpaginated"
    /\ \E reply \in UnpaginatedReplies(Max(1, acCalls[c].pageSize)) :
          Becomes(UnpaginatedLeave(Replied(AccState, c, reply), c, reply))
    /\ UNCHANGED <<acFn, acNow, acJumps>>
    /\ UNCHANGED <<runnerVars, fasVars, cacheVars, gesVars, dateVars, aggVars>>
    /\ UNCHANGED <<lbVars, retryVars, esVars>>

\* the clock advances by one of the two TTLs
ClockJumps == {CACHE_TTL_LIVE_MS, CACHE_TTL_PAST_MS}
ClockAdvances ==
    /\ acJumps < MaxJumps
    /\ \E jump \in ClockJumps :
          /\ acNow + jump <= 2 * CACHE_TTL_PAST_MS + CACHE_TTL_LIVE_MS
          /\ acNow' = acNow + jump
    /\ acJumps' = acJumps + 1
    /\ UNCHANGED <<acFn, acDetails, acPaginated, acFull, acCalls, acRequests,
                   acPageCalls, acSets, acLastSet>>
    /\ UNCHANGED <<runnerVars, fasVars, cacheVars, gesVars, dateVars, aggVars>>
    /\ UNCHANGED <<lbVars, retryVars, esVars>>

AccNext ==
    \/ \E c \in Calls : AccCall(c)
    \/ \E c \in Calls : DetailsSettled(c)
    \/ \E c \in Calls : PaginatedSettled(c)
    \/ \E c \in Calls : UnpaginatedSettled(c)
    \/ ClockAdvances

(***************************************************************************)
(* The specifications: each runs one part from its start, the others idle. *)
(***************************************************************************)
GesInit ==
    /\ GesStart /\ RunnerIdle /\ CacheIdle /\ DateIdle /\ AggIdle /\ LbIdle
    /\ RetryIdle /\ EsIdle /\ AccIdle

SpecStandings == GesInit /\ [][GesNext]_vars

\* getEventStandings of either copy
GesInitEither ==
    /\ GesStartEither /\ RunnerIdle /\ CacheIdle /\ DateIdle /\ AggIdle /\ LbIdle
    /\ RetryIdle /\ EsIdle /\ AccIdle

SpecEventStandings == GesInitEither /\ [][GesNext]_vars

CacheInit ==
    /\ CacheStart /\ RunnerIdle /\ GesIdle /\ DateIdle /\ AggIdle /\ LbIdle
    /\ RetryIdle /\ EsIdle /\ AccIdle

SpecCache == CacheInit /\ [][CacheNext]_vars

RunnerInit ==
    /\ RunnerStart /\ CacheIdle /\ GesIdle /\ DateIdle /\ AggIdle /\ LbIdle
    /\ RetryIdle /\ EsIdle /\ AccIdle

SpecRunner == RunnerInit /\ [][RunnerNext]_vars

\* the call, once made, runs, every started operation settles and the
\* awaited Promise.all settles once it can
SpecRunnerFair ==
    /\ SpecRunner
    /\ WF_vars(Call) /\ WF_vars(Finish)
    /\ \A w \in 1..(MaxItems + ExtraEvents + EVENT_STANDINGS_CONCURRENCY) :
           WF_vars(w \in DOMAIN workers /\ Settle(w))

DateInit ==
    /\ DateStart /\ RunnerIdle /\ CacheIdle /\ GesIdle /\ AggIdle /\ LbIdle
    /\ RetryIdle /\ EsIdle /\ AccIdle

SpecDates == DateInit /\ [][DateNext]_vars

AggInit ==
    /\ AggStart /\ RunnerIdle /\ CacheIdle /\ GesIdle /\ DateIdle /\ LbIdle
    /\ RetryIdle /\ EsIdle /\ AccIdle

SpecAggregate == AggInit /\ [][AggNext]_vars

LbInit ==
    /\ LbStart /\ RunnerIdle /\ CacheIdle /\ GesIdle /\ DateIdle /\ AggIdle
    /\ RetryIdle /\ EsIdle /\ AccIdle

SpecLeaderboard == LbInit /\ [][LbNext]_vars

RetryInit ==
    /\ RetryStart /\ RunnerIdle /\ CacheIdle /\ GesIdle /\ DateIdle /\ AggIdle
    /\ LbIdle /\ EsIdle /\ AccIdle

SpecRetry == RetryInit /\ [][RetryNext]_vars

\* the call, once made, runs, and the fetches and sleeps it awaits settle
SpecRetryFair == SpecRetry /\ WF_vars(RetryNext)

EsInit ==
    /\ EsStart /\ RunnerIdle /\ CacheIdle /\ GesIdle /\ DateIdle /\ AggIdle
    /\ LbIdle /\ RetryIdle /\ AccIdle

SpecStatuses == EsInit /\ [][EsNext]_vars

AccInit ==
    /\ AccStart /\ AccCaches /\ RunnerIdle /\ GesIdle /\ DateIdle /\ AggIdle
    /\ LbIdle /\ RetryIdle /\ EsIdle

SpecAccessors == AccInit /\ [][AccNext]_vars

\* the call, once made, runs, and the geocoding and the page requests it
\* awaits settle
SpecLeaderboardFair ==
    /\ SpecLeaderboard
    /\ WF_vars(LbCall) /\ WF_vars(GeocodeSettled) /\ WF_vars(PageSettled)

(***************************************************************************)
(* Claims about runWithBoundedConcurrency (checked under SpecRunner).      *)
(***************************************************************************)
Indices == 0..(Len(items) - 1)
Started == {calls[k] : k \in DOMAIN calls}
InFlightOps == Started \ settled

\* C1: the resolved array has exactly items.length slots, slot i holds the
\* result of op(items[i]) for every i whose operation succeeded, and no slot
\* ever holds the result of another item, whatever the completion order.
C1_IndexCorrespondence ==
    promise = "resolved" =>
        /\ DOMAIN results = Indices
        /\ \A i \in settled \ failing : results[i] = Op(ItemAt(i))
        /\ \A i \in Indices : results[i] \in {Undefined, Op(ItemAt(i))}

\* Three items on two workers, the middle one failing, all resolved: the
\* third item was claimed by whichever worker settled first.
C1_Witness ==
    /\ promise = "resolved"
    /\ Len(items) = 3 /\ concurrency = 2 /\ failing = {1}
    /\ results[0] = Op(ItemAt(0)) /\ results[2] = Op(ItemAt(2))

\* C2: whatever subset of the items fails, the promise never rejects and can
\* always still make progress until it resolves; once resolved, each failed
\* index holds undefined, every other index holds its own result, and the
\* operation of every item was started and has completed.
C2_FailureIsolation ==
    /\ promise # "rejected"
    /\ promise # "resolved" => ENABLED RunnerNext
    /\ promise = "resolved" =>
           /\ \A i \in failing : results[i] = Undefined
           /\ \A i \in Indices \ failing : results[i] = Op(ItemAt(i))
           /\ Started = Indices
           /\ settled = Indices

\* A resolved run in which some, but not all, of three items failed.
C2_Witness ==
    /\ promise = "resolved"
    /\ Len(items) = 3
    /\ failing # {} /\ failing # Indices
    /\ \E i \in failing : \E j \in Indices \ failing : i < j

\* C3: the operations started and not yet settled are never more than
\* min(width, items.length); for fetchAllEventStandings that is at most 8.
C3_BoundedInFlight ==
    /\ Cardinality(InFlightOps) <= Min(concurrency, Len(items))
    /\ caller = "fetchAllEventStandings" =>
           Cardinality(InFlightOps) <= EVENT_STANDINGS_CONCURRENCY

\* fetchAllEventStandings over more than 8 events: one call has settled and
\* its worker claimed the next event, so 8 calls are in flight again.
C3_Witness ==
    /\ caller = "fetchAllEventStandings"
    /\ Len(items) > EVENT_STANDINGS_CONCURRENCY
    /\ settled # {}
    /\ Cardinality(InFlightOps) = EVENT_STANDINGS_CONCURRENCY

(***************************************************************************)
(* Claims about the TTL cache (checked under SpecCache).                   *)
(***************************************************************************)
\* the stored keys whose most recent set has not expired at the current time
LiveKeys == {k \in KeysOf(store) : now <= lastSet[k].expiry}
\* the least recently used key of a non-empty set of used keys
LeastRecentlyUsed(S) ==
    recency[CHOOSE n \in DOMAIN recency :
               /\ recency[n] \in S
               /\ \A m \in 1..(n - 1) : recency[m] \notin S]

\* C4: a get never returns a value whose expiry (the time of its set plus
\* ttlMs) is earlier than the current time; a get on a key whose entry has
\* expired returns absent and leaves no entry for the key in the store.
C4_NoExpiredValue ==
    lastOp.op = "get" =>
        /\ lastOp.ret # Absent =>
              /\ lastSet[lastOp.key] # NoSet
              /\ lastSet[lastOp.key].expiry >= now
        /\ (lastSet[lastOp.key] # NoSet /\ lastSet[lastOp.key].expiry < now) =>
              /\ lastOp.ret = Absent
              /\ ~Has(store, lastOp.key)

\* A get found the entry of its key expired, and removed it.
C4_Witness ==
    /\ lastOp.op = "get" /\ lastOp.found = "expired"
    /\ lastSet[lastOp.key].expiry < now
    /\ lastOp.ret = Absent
    /\ ~Has(store, lastOp.key)

\* C5: when the last set on k was set(k, v, ttlMs), the current time has not
\* passed that set's time plus ttlMs, and k was not evicted for capacity
\* since, get(k) returns v.
C5_LiveValueReturned ==
    (/\ lastOp.op = "get"
     /\ lastSet[lastOp.key] # NoSet
     /\ now <= lastSet[lastOp.key].expiry
     /\ lastOp.key \notin capEvicted)
    => lastOp.ret = lastSet[lastOp.key].value

\* A get at the very millisecond of the expiry still returns the value, while
\* another key set with the other TTL is stored beside it.
C5_Witness ==
    /\ lastOp.op = "get" /\ lastOp.found = "live"
    /\ now = lastSet[lastOp.key].expiry
    /\ lastOp.ret = lastSet[lastOp.key].value
    /\ \E k \in KeysOf(store) \ {lastOp.key} :
          lastSet[k].expiry > lastSet[lastOp.key].expiry

\* C6: a cache created with maxSize = N > 0 never stores more than N entries.
C6_SizeBounded == maxSize > 0 => Len(store) <= maxSize

\* A full cache of two entries after a third key was set and one was evicted.
C6_Witness ==
    /\ maxSize = 2 /\ Len(store) = maxSize
    /\ lastOp.op = "set"
    /\ capEvicted # {}

\* C7: with maxSize > 0, a set that inserts a new key while the cache holds
\* maxSize unexpired entries removes exactly the least recently used of them
\* (last set or last successful get).
C7_EvictsLeastRecentlyUsed ==
    [][\A k \in Keys :
          (/\ maxSize > 0
           /\ k \notin LiveKeys
           /\ Has(store', k)
           /\ Cardinality(LiveKeys) = maxSize)
          => LiveKeys \ KeysOf(store') = {LeastRecentlyUsed(LiveKeys)}]_vars

\* maxSize = 2: set a at time 0, set b at time 1, get a, set c: a's last set
\* is older than b's, yet b is the key evicted and a stays.
C7_Witness ==
    /\ maxSize = 2 /\ now = 1
    /\ lastSet["a"].expiry = 1 /\ lastSet["b"].expiry = 3
    /\ recency = <<"b", "a", "c">>
    /\ lastOp.op = "set" /\ lastOp.key = "c"
    /\ capEvicted = {"b"}
    /\ [n \in DOMAIN store |-> store[n].key] = <<"a", "c">>

(***************************************************************************)
(* Claims about getEventStandings (checked under SpecStandings).           *)
(***************************************************************************)
\* the rounds of the event, each with the 0-based index of its phase
EventRounds ==
    UNION {{[id |-> tournament_phases[ph][n].id,
             round_number |-> tournament_phases[ph][n].round_number,
             phase_index |-> ph - 1,
             standings_status |-> tournament_phases[ph][n].standings_status] :
              n \in DOMAIN tournament_phases[ph]} :
           ph \in DOMAIN tournament_phases}
RoundById(id) == CHOOSE r \in EventRounds : r.id = id

\* authority priority: completed/final/published/closed = 0, absent or any
\* other status = 1, pending/in_progress = 2 (status names in any case)
AuthorityPriority(status) ==
    IF status = NoStatus THEN 1
    ELSE IF ToLowerCase(status) \in {"completed", "final", "published", "closed"}
    THEN 0
    ELSE IF ToLowerCase(status) \in {"pending", "in_progress"} THEN 2
    ELSE 1

\* a comes strictly before b under the key (authority priority ascending,
\* phase index descending, round number descending)
KeyPrecedes(a, b) ==
    LET pa == AuthorityPriority(a.standings_status)
        pb == AuthorityPriority(b.standings_status)
    IN  \/ pa < pb
        \/ pa = pb /\ a.phase_index > b.phase_index
        \/ pa = pb /\ a.phase_index = b.phase_index
             /\ a.round_number > b.round_number

\* a response that succeeded with at least one result
HasData(res) == res.ok /\ Len(res.results) >= 1

C10_NullExactlyWhenNoData ==
    /\ gesPc = "threw" => fetched = <<>>
    /\ gesPc = "returned" =>
          LET rounds == EventRounds
          IN  gesRet = Null <=>
                 \/ Len(tournament_phases) = 0
                 \/ rounds = {}
                 \/ /\ {fetched[n] : n \in DOMAIN fetched} =
                           {r.id : r \in rounds}
                    /\ \A n \in DOMAIN responses : ~HasData(responses[n])

\* The first request failed, the walk went on, and a later round's data is
\* what the call returned.
C10_Witness ==
    /\ gesPc = "returned" /\ gesRet.kind = "value"
    /\ Len(fetched) = 3
    /\ responses[1] = Threw /\ responses[2] = Page(<<>>)

(***************************************************************************)
(* Claims about the leaderboard calls (checked under SpecLeaderboard).     *)
(***************************************************************************)
\* the collaborator calls issued so far
CallsIssued == {lbCalls[n] : n \in DOMAIN lbCalls}

\* C11: the promise of getPlayerLeaderboardByCity / ByStore never rejects:
\* whatever fails (dates, geocoding, the event listing, single events), it
\* resolves with a LeaderboardResult or with an {error} value.
C11_NeverRejects ==
    /\ lbPc # "rejected"
    /\ lbRet.kind \in {"none", "error", "result"}

\* the largest inclusive span of days the surface of the call accepts
AcceptedSpan == IF lbSurface = "core" THEN 366 ELSE 93

\* the dates of the call do not pass validation: one of them is no date,
\* the start is after the end, or the inclusive span exceeds the maximum
DatesRefused ==
    \/ lbStart = NotADate
    \/ lbEnd = NotADate
    \/ lbStart > lbEnd
    \/ lbEnd - lbStart + 1 > AcceptedSpan

\* C12: when date validation fails the call returns {error} and no upstream
\* call (geocoding, event listing, standings) has been issued, then or later.
C12_NoCallOnBadDates ==
    DatesRefused =>
        /\ lbCalls = <<>>
        /\ lbPc \in {"called", "returned"}
        /\ lbPc = "returned" => lbRet.kind = "error"

\* A city call whose span is over the maximum returned its error.
C12_Witness ==
    /\ lbScope = "city" /\ lbStart = 0 /\ lbEnd = 400
    /\ lbPc = "returned" /\ lbRet.kind = "error"
    /\ lbCalls = <<>>

\* the event listing of the call went through: its last page request
\* settled with a page and no further page is awaited
ListingFinished ==
    /\ lbLastPage.kind = "page"
    /\ lbPc # "awaitPage"

NoEventsError == ErrorResult(DateError("No past or in-progress events found", 0))

\* C14: a listing that finishes with zero events makes the call return the
\* "No past or in-progress events found" error; a success result, with or
\* without players, is returned only when at least one event was listed.
C14_NoEventsIsAnError ==
    /\ (ListingFinished /\ Len(lbAllEvents) = 0) =>
            lbPc = "returned" /\ lbRet = NoEventsError
    /\ lbRet.kind = "result" => Len(lbAllEvents) >= 1
    /\ lbRet = NoEventsError => ListingFinished /\ Len(lbAllEvents) = 0

\* The listing of a city call came back empty and the call returned the
\* error.
C14_Witness ==
    /\ lbScope = "city"
    /\ ListingFinished /\ lbAllEvents = <<>>
    /\ lbPc = "returned" /\ lbRet = NoEventsError

\* C15: when a page request of the event listing returns an error result,
\* on page 1 or later, the call returns that error: no standings fetch is
\* started and no leaderboard is built from the pages already listed.
C15_PageErrorReturned ==
    lbLastPage.kind = "error" =>
        /\ lbPc = "returned"
        /\ lbRet = ErrorResult(DateError("API error", lbLastPage.n))
        /\ "fetchAllEventStandings" \notin CallsIssued
        /\ lbOutcomes = <<>>

\* The request of page 2 returned an error after a full first page.
C15_Witness ==
    /\ lbLastPage.kind = "error" /\ lbLastPage.n = 500
    /\ lbPage = 2 /\ Len(lbAllEvents) = LEADERBOARD_PAGE_SIZE
    /\ lbPc = "returned" /\ lbRet.kind = "error"

\* the number of rounds of an event, over all its phases
RoundsOf(tp) ==
    Cardinality({pr \in (DOMAIN tp.phases) \X (1..MaxRoundsTotal) :
                    pr[2] \in DOMAIN tp.phases[pr[1]].rounds})

\* the call asks for a minimum number of rounds
MinRoundsSet == lbMinRounds # NoNum /\ lbMinRounds # 0

\* the listed events (by position in the listing) that resolved to standings
Resolved == {n \in DOMAIN lbAllEvents : lbOutcomes[n].res = "value"}

\* ... and that have the rounds the call asks for
Counted ==
    {n \in Resolved :
        MinRoundsSet => RoundsOf(lbOutcomes[n].phases) >= lbMinRounds}

\* the fan-out over the listed events has settled
FanOutSettled ==
    /\ "fetchAllEventStandings" \in CallsIssued
    /\ lbPc # "awaitStandings"

\* C16: an event whose resolution fails or returns null is left out and
\* never makes the call fail: the call returns a result, eventsAnalyzed is
\* the number of listed events that resolved to standings and pass the
\* minRounds filter, and eventsIncluded lists exactly those events.
C16_FailedEventsLeftOut ==
    FanOutSettled =>
        /\ lbPc = "returned" /\ lbRet.kind = "result"
        /\ lbRet.eventsAnalyzed = Cardinality(Counted)
        /\ Len(lbRet.eventsIncluded) = Cardinality(Counted)
        /\ {lbRet.eventsIncluded[n] : n \in DOMAIN lbRet.eventsIncluded} =
               {lbAllEvents[n] : n \in Counted}

\* Of two listed events the first failed to resolve and the second went
\* into the leaderboard.
C16_Witness ==
    /\ FanOutSettled /\ Len(lbAllEvents) = 2
    /\ lbOutcomes[1].res \in {"threw", "error"}
    /\ lbOutcomes[2].res = "value"
    /\ lbRet.kind = "result" /\ lbRet.eventsAnalyzed = 1
    /\ lbRet.eventsIncluded = <<lbAllEvents[2]>>

\* the names on the leaderboard
NamesListed == {lbRet.players[n].playerName : n \in DOMAIN lbRet.players}

\* C20: with minRounds set, an event with fewer rounds over all its phases
\* is left out of eventsIncluded, eventsAnalyzed and the players even when
\* it has standings, and an event at or above the threshold is kept; with
\* minRounds unset or 0 no event with standings is dropped.
C20_MinRoundsFilter ==
    (FanOutSettled /\ lbRet.kind = "result") =>
        LET kept == {n \in Resolved :
                        lbAllEvents[n] \in
                            {lbRet.eventsIncluded[k] :
                                k \in DOMAIN lbRet.eventsIncluded}}
        IN  /\ \A n \in Resolved :
                   n \in kept <=>
                      \/ ~MinRoundsSet
                      \/ RoundsOf(lbOutcomes[n].phases) >= lbMinRounds
            /\ lbRet.eventsAnalyzed = Cardinality(kept)
            /\ \A n \in DOMAIN lbRet.players :
                   /\ lbRet.players[n].playerName = "ann" =>
                          lbRet.players[n].eventsPlayed = Cardinality(kept)
                   /\ lbRet.players[n].playerName # "ann" =>
                          \E k \in kept :
                             lbRet.players[n].playerName =
                                 GuestName(lbAllEvents[k] % 4)
            /\ (Len(lbAllEvents) <= 4 /\ MinEventsCap(lbMinEvents) = 1
                   /\ LimitCap(lbLimit) > 4) =>
                   \A k \in kept : GuestName(lbAllEvents[k] % 4) \in NamesListed

\* minRounds is 2: the first event, with standings and one round, is left
\* out, and the second, with exactly two rounds, is kept.
C20_Witness ==
    /\ FanOutSettled /\ lbMinRounds = 2 /\ Len(lbAllEvents) = 2
    /\ lbOutcomes[1].res = "value" /\ RoundsOf(lbOutcomes[1].phases) = 1
    /\ lbOutcomes[2].res = "value" /\ RoundsOf(lbOutcomes[2].phases) = 2
    /\ lbRet.kind = "result" /\ lbRet.eventsIncluded = <<lbAllEvents[2]>>
    /\ NamesListed = {"ann", GuestName(lbAllEvents[2] % 4)}

(***************************************************************************)
(* Claims about date validation (checked under SpecDates).                 *)
(***************************************************************************)
\* the inclusive number of days from the start date to the end date
InclusiveSpan == dvEnd - dvStart + 1

\* the largest span the surface accepts
SpanLimit == IF dvSurface = "core" THEN 366 ELSE 93

\* C13: for two valid dates, validation passes exactly when the start is
\* not after the end and the inclusive span of days is at most the maximum
\* (366 on the core surface, 93 on the bot surface); a start after the end
\* gives the error about start_date, a span over the maximum the error that
\* names the maximum.
C13_SpanWithinMaximum ==
    (dvRet # NotValidated /\ dvStart # NotADate /\ dvEnd # NotADate) =>
        /\ dvRet = NoDateError <=>
               (dvStart <= dvEnd /\ InclusiveSpan <= SpanLimit)
        /\ dvStart > dvEnd =>
               dvRet.message = "start_date must be on or before end_date."
        /\ (dvStart <= dvEnd /\ InclusiveSpan > SpanLimit) =>
               dvRet = DateError("Date range cannot exceed N days", SpanLimit)

\* A span of exactly 366 days passed on the core surface.
C13_Witness ==
    /\ dvSurface = "core" /\ dvStart # NotADate
    /\ InclusiveSpan = 366
    /\ dvRet = NoDateError

\* A span of 367 days was refused on the core surface.
C13_WitnessOver ==
    /\ dvSurface = "core" /\ dvStart # NotADate
    /\ InclusiveSpan = 367
    /\ dvRet = DateError("Date range cannot exceed N days", 366)

\* A span of 94 days was refused on the bot surface.
C13_WitnessBot ==
    /\ dvSurface = "bot" /\ dvStart # NotADate
    /\ InclusiveSpan = 94
    /\ dvRet = DateError("Date range cannot exceed N days", 93)

(***************************************************************************)
(* Claims about fetchAllEventStandings (checked under SpecRunner).         *)
(***************************************************************************)
\* the ids of the events in the returned list, in list order
ReturnedIds == [n \in DOMAIN fasRet.list |-> fasRet.list[n].event.id]

\* the position of an event id in the input
InputPosition(id) == CHOOSE i \in 0..(Len(items) - 1) : ItemAt(i) = id

\* C17: whatever the order in which the concurrent resolutions settle,
\* fetchAllEventStandings returns the same list: the events that resolved
\* to standings, each once, in the order of the input ids.
C17_InputOrderKept ==
    fasRet.returned =>
        /\ {ReturnedIds[n] : n \in DOMAIN ReturnedIds} =
               {ItemAt(i) : i \in {j \in DOMAIN resolution :
                                      resolution[j] = "value"}}
        /\ \A m, n \in DOMAIN ReturnedIds :
               m < n => InputPosition(ReturnedIds[m]) <
                            InputPosition(ReturnedIds[n])
        /\ \A n \in DOMAIN fasRet.list :
               fasRet.list[n] = ResolvedStandings(ReturnedIds[n])

\* A later event settled before an earlier one, one event did not resolve,
\* and two came back.
C17_Witness ==
    /\ fasRet.returned /\ outOfOrder
    /\ Len(fasRet.list) = 2
    /\ \E i \in DOMAIN resolution : resolution[i] # "value"

(***************************************************************************)
(* Claims about aggregateStandingsToPlayers (checked under SpecAggregate). *)
(***************************************************************************)
\* the orders the events of the call can be given in
Reorderings ==
    {pi \in [DOMAIN eventStandings -> DOMAIN eventStandings] :
        \A a, b \in DOMAIN eventStandings : pi[a] = pi[b] => a = b}

\* what a caller reads of a leaderboard line: every field but the list of
\* placements, which is kept event by event
Line(p) ==
    [playerName |-> p.playerName, totalWins |-> p.totalWins,
     totalLosses |-> p.totalLosses, eventsPlayed |-> p.eventsPlayed,
     bestPlacement |-> p.bestPlacement,
     firstPlaceFinishes |-> p.firstPlaceFinishes]
Lines(players) == [n \in DOMAIN players |-> Line(players[n])]

\* C18: aggregation does not depend on the order of the events: the same
\* events in any other order give the same sorted and truncated list, the
\* same players with the same names and values in the same positions.
C18_OrderIndependent ==
    aggPc = "returned" =>
        \A pi \in Reorderings :
            Lines(aggregateStandingsToPlayers(
                      [n \in DOMAIN eventStandings |-> eventStandings[pi[n]]],
                      aggMinEvents, aggSortBy, aggLimit))
                = Lines(aggPlayers)

\* the entries of the call: the event and the 0-based position of each
EntrySlots ==
    {s \in (DOMAIN eventStandings) \X (0..1) :
        s[2] < Len(eventStandings[s[1]].standings)}
EntryIn(s) == eventStandings[s[1]].standings[s[2] + 1]

\* the entries that count for a player key
SlotsOf(key) == {s \in EntrySlots : standingPlayerKey(EntryIn(s)) = key}

\* the placement of an entry: its rank, else its placement, else its
\* 1-based position
PlacementIn(s) ==
    IF EntryIn(s).rank # NoNum THEN EntryIn(s).rank
    ELSE IF EntryIn(s).placement # NoNum THEN EntryIn(s).placement
    ELSE s[2] + 1

RECURSIVE SumWins(_)
SumWins(slots) ==
    IF slots = {} THEN 0
    ELSE LET s == CHOOSE x \in slots : TRUE
         IN  standingWinsLosses(EntryIn(s)).wins + SumWins(slots \ {s})
RECURSIVE SumLosses(_)
SumLosses(slots) ==
    IF slots = {} THEN 0
    ELSE LET s == CHOOSE x \in slots : TRUE
         IN  standingWinsLosses(EntryIn(s)).losses + SumLosses(slots \ {s})

\* the line the claim gives a player key
ExpectedStats(key) ==
    [totalWins |-> SumWins(SlotsOf(key)),
     totalLosses |-> SumLosses(SlotsOf(key)),
     eventsPlayed |-> Cardinality(SlotsOf(key)),
     bestPlacement |->
         CHOOSE b \in {PlacementIn(s) : s \in SlotsOf(key)} :
             \A s \in SlotsOf(key) : b <= PlacementIn(s),
     firstPlaceFinishes |->
         Cardinality({s \in SlotsOf(key) : PlacementIn(s) = 1})]

StatsOf(p) ==
    [totalWins |-> p.totalWins, totalLosses |-> p.totalLosses,
     eventsPlayed |-> p.eventsPlayed, bestPlacement |-> p.bestPlacement,
     firstPlaceFinishes |-> p.firstPlaceFinishes]

\* the player keys of the call
KeysPlayed ==
    {standingPlayerKey(EntryIn(s)) : s \in EntrySlots} \ {NameKey(Unknown)}

\* C19: every player key has one aggregate, whose totalWins and totalLosses
\* are the sums over the key's entries, eventsPlayed their number,
\* bestPlacement the least placement and firstPlaceFinishes the number of
\* placements equal to 1, the placement of an entry being its rank, else its
\* placement field, else its 1-based position; the players returned carry
\* these values.
C19_AggregateValues ==
    aggPc = "returned" =>
        /\ Len(aggMap) = Cardinality(KeysPlayed)
        /\ \A k \in KeysPlayed :
               \E n \in DOMAIN aggMap :
                  /\ aggMap[n].key = k
                  /\ StatsOf(ToPlayerStats(aggMap[n])) = ExpectedStats(k)
        /\ (aggMinEvents = 1 /\ aggLimit >= Len(aggMap)) =>
               /\ Len(aggPlayers) = Len(aggMap)
               /\ \A k \in KeysPlayed :
                      \E n \in DOMAIN aggPlayers :
                         StatsOf(aggPlayers[n]) = ExpectedStats(k)

\* A player with rank 1 and 3-0 in one event and rank 4 and 2-1 in the
\* other has 5 wins, 1 loss, 2 events, best placement 1 and one first place.
C19_Witness ==
    /\ aggPc = "returned"
    /\ Len(eventStandings) = 2
    /\ Len(aggPlayers) = 1
    /\ StatsOf(aggPlayers[1]) =
           [totalWins |-> 5, totalLosses |-> 1, eventsPlayed |-> 2,
            bestPlacement |-> 1, firstPlaceFinishes |-> 1]

\* the keys a sort order compares, in order, each turned so that the
\* smaller number comes first
OrderKeys(sortBy, p) ==
    CASE sortBy = "total_wins" ->
             <<0 - p.totalWins, p.totalLosses, p.bestPlacement>>
      [] sortBy = "events_played" ->
             <<0 - p.eventsPlayed, 0 - p.totalWins, p.totalLosses,
               p.bestPlacement>>
      [] OTHER -> <<p.bestPlacement, 0 - p.totalWins, p.totalLosses>>

\* ka comes strictly before kb, the keys read left to right
KeysBefore(ka, kb) ==
    \E n \in DOMAIN ka :
        /\ ka[n] < kb[n]
        /\ \A m \in 1..(n - 1) : ka[m] = kb[m]

\* C21: under total_wins, events_played and best_placement the returned
\* list is ordered by the keys of the order read left to right: of two
\* adjacent players the later one never comes strictly before the earlier.
C21_SortedByKeyList ==
    (aggPc = "returned" /\ aggSortBy # "win_rate") =>
        \A n \in 1..(Len(aggPlayers) - 1) :
            ~KeysBefore(OrderKeys(aggSortBy, aggPlayers[n + 1]),
                        OrderKeys(aggSortBy, aggPlayers[n]))

\* Two players with the same wins were returned, the one with fewer
\* losses first although it entered the aggregation last.
C21_Witness ==
    /\ aggPc = "returned" /\ aggSortBy = "total_wins"
    /\ Len(aggPlayers) = 2 /\ Len(aggMap) = 2
    /\ aggPlayers[1].totalWins = aggPlayers[2].totalWins
    /\ aggPlayers[1].totalLosses < aggPlayers[2].totalLosses
    /\ aggPlayers[1].playerName = aggMap[2].displayName
    /\ aggPlayers[2].playerName = aggMap[1].displayName

\* a has the higher win rate, a player without games having rate 0
HigherRate(a, b) ==
    LET gamesA == a.totalWins + a.totalLosses
        gamesB == b.totalWins + b.totalLosses
    IN  CASE gamesA = 0 -> FALSE
          [] gamesB = 0 -> a.totalWins > 0
          [] OTHER -> a.totalWins * gamesB > b.totalWins * gamesA

\* a comes strictly before b under win_rate
RateBefore(a, b) ==
    \/ HigherRate(a, b)
    \/ /\ ~HigherRate(b, a)
       /\ KeysBefore(OrderKeys("total_wins", a), OrderKeys("total_wins", b))

\* C22: under win_rate the returned list is ordered by wins/(wins+losses)
\* descending, a player without games counting as rate 0, then by wins
\* descending, losses ascending and best placement ascending.
C22_SortedByWinRate ==
    (aggPc = "returned" /\ aggSortBy = "win_rate") =>
        \A n \in 1..(Len(aggPlayers) - 1) :
            ~RateBefore(aggPlayers[n + 1], aggPlayers[n])

\* A player without games entered the aggregation first and was returned
\* after a player who won games.
C22_Witness ==
    /\ aggPc = "returned" /\ aggSortBy = "win_rate"
    /\ Len(aggPlayers) = 2 /\ Len(aggMap) = 2
    /\ aggMap[1].wins + aggMap[1].losses = 0
    /\ aggPlayers[2].totalWins + aggPlayers[2].totalLosses = 0
    /\ aggPlayers[1].totalWins > 0 /\ aggPlayers[1].totalLosses > 0

\* the aggregation key of an entry: its player id when it has one, else
\* the first present of its handle, player_name, display_name and username,
\* else the unknown sentinel
KeyOfEntry(e) ==
    IF e.player_id # NoNum THEN [id |-> e.player_id, name |-> NoName]
    ELSE [id |-> NoNum,
          name |-> IF e.player_best_identifier # NoName
                   THEN e.player_best_identifier
                   ELSE IF e.player_name # NoName THEN e.player_name
                   ELSE IF e.display_name # NoName THEN e.display_name
                   ELSE IF e.username # NoName THEN e.username
                   ELSE "--"]

\* the entries that can be attributed to a player
AttributedSlots ==
    {s \in EntrySlots : KeyOfEntry(EntryIn(s)) # [id |-> NoNum, name |-> "--"]}

\* C24: an entry is keyed by its player id when it has one, else by the
\* first present of handle, player_name, display_name, username; entries
\* with none of these count for nobody; and entries are merged into one
\* player exactly when their keys are equal.
C24_KeyedAndMerged ==
    aggPc = "returned" =>
        /\ {aggMap[n].key : n \in DOMAIN aggMap} =
               {KeyOfEntry(EntryIn(s)) : s \in AttributedSlots}
        /\ \A m, n \in DOMAIN aggMap : aggMap[m].key = aggMap[n].key => m = n
        /\ \A n \in DOMAIN aggMap :
               LET mine == {s \in AttributedSlots :
                               KeyOfEntry(EntryIn(s)) = aggMap[n].key}
               IN  /\ aggMap[n].eventsPlayed = Cardinality(mine)
                   /\ Len(aggMap[n].placements) = Cardinality(mine)
                   /\ aggMap[n].wins = SumWins(mine)
                   /\ aggMap[n].losses = SumLosses(mine)

\* An entry that names nobody was skipped, and the entries known as "cy" by
\* player_name and by username were merged into one player.
C24_Witness ==
    /\ aggPc = "returned" /\ Len(eventStandings) = 2
    /\ eventStandings[1].standings = <<Nobody, Cy>>
    /\ eventStandings[2].standings = <<CyUser>>
    /\ Len(aggMap) = 1 /\ aggMap[1].eventsPlayed = 2
    /\ aggMap[1].key = [id |-> NoNum, name |-> "cy"]

\* The entry with player id 1 and the entry without id that carries the
\* same handle were kept apart.
C24_WitnessApart ==
    /\ aggPc = "returned" /\ Len(eventStandings) = 2
    /\ eventStandings[1].standings = <<Ann30>>
    /\ eventStandings[2].standings = <<AnnNoId>>
    /\ Len(aggMap) = 2

\* the steps that handled an entry of the same key as step n, up to step n
SameKeyUpTo(n) == {m \in 1..n : aggSteps[m].key = aggSteps[n].key}

\* the first step of the key of step n whose entry carried a per-event
\* handle, 0 when there was none up to step n
FirstHandleStep(n) ==
    IF \E m \in SameKeyUpTo(n) : aggSteps[m].handle # NoName
    THEN CHOOSE m \in SameKeyUpTo(n) :
             /\ aggSteps[m].handle # NoName
             /\ \A k \in SameKeyUpTo(n) : aggSteps[k].handle # NoName => m <= k
    ELSE 0

\* C25: while the entries are processed, a display name taken from a
\* per-event handle is never replaced afterwards, and a name taken from
\* another field is replaced the first time an entry of the same key
\* carries a per-event handle.
C25_DisplayNameNeverRegresses ==
    aggPc = "returned" =>
        \A n \in DOMAIN aggSteps :
            (aggSteps[n].name # NoName /\ FirstHandleStep(n) # 0) =>
                aggSteps[n].name = aggSteps[FirstHandleStep(n)].handle

\* A player first listed under the handle "bob" took the per-event handle
\* of a later entry, and kept it.
C25_Witness ==
    /\ aggPc = "returned" /\ Len(aggSteps) = 2
    /\ aggSteps[1].key = aggSteps[2].key
    /\ aggSteps[1].handle = NoName /\ aggSteps[1].name = "bob"
    /\ aggSteps[2].handle = "Bobby#2" /\ aggSteps[2].name = "Bobby#2"

\* A name taken from a per-event handle was kept when a later entry of the
\* key carried another per-event handle.
C25_WitnessKept ==
    /\ aggPc = "returned" /\ Len(aggSteps) = 2
    /\ aggSteps[1].key = aggSteps[2].key
    /\ aggSteps[1].handle = "Cy#1" /\ aggSteps[2].handle = "Cy#2"
    /\ aggSteps[2].name = "Cy#1"

\* the entry handled by step n of the loop
StepEntry(n) ==
    EntryIn(CHOOSE s \in EntrySlots :
                Cardinality({t \in EntrySlots :
                                t[1] < s[1] \/ (t[1] = s[1] /\ t[2] < s[2])})
                    = n - 1)

Digits == {"0", "1", "2", "3", "4", "5", "6", "7", "8", "9"}
DigitOf(c) == CHOOSE d \in 0..9 : <<c, d>> \in
    {<<"0", 0>>, <<"1", 1>>, <<"2", 2>>, <<"3", 3>>, <<"4", 4>>,
     <<"5", 5>>, <<"6", 6>>, <<"7", 7>>, <<"8", 8>>, <<"9", 9>>}

\* the string the pair of an entry is parsed from: record, else match_record
RecordString(e) == IF e.record # NoRecord THEN e.record ELSE e.match_record

\* a string of the form "W-L", W and L one digit each
IsWinLoss(str) ==
    /\ str # NoRecord /\ Len(str) = 3
    /\ str[1] \in Digits /\ str[2] = "-" /\ str[3] \in Digits

\* an absent or empty string, or one without any digit
IsUnreadable(str) ==
    \/ str = NoRecord
    \/ \A n \in DOMAIN str : str[n] \notin Digits

\* C26: the win/loss pair read from an entry is its wins and losses fields
\* when both are present; otherwise it is parsed from record, else
\* match_record: "W-L" gives W and L, an absent, empty or non-numeric
\* string gives 0 and 0, and a single present field is not used.
C26_WinsLossesRead ==
    aggPc = "returned" =>
        \A n \in DOMAIN aggSteps :
            LET e == StepEntry(n)
                str == RecordString(e)
                pair == <<aggSteps[n].wins, aggSteps[n].losses>>
            IN  /\ (e.wins # NoNum /\ e.losses # NoNum) =>
                       pair = <<e.wins, e.losses>>
                /\ (e.wins = NoNum \/ e.losses = NoNum) =>
                       /\ IsWinLoss(str) =>
                              pair = <<DigitOf(str[1]), DigitOf(str[3])>>
                       /\ IsUnreadable(str) => pair = <<0, 0>>

\* "3-1" under match_record was read as 3 wins and 1 loss, and the entry
\* with wins alone and an empty record as 0 and 0.
C26_Witness ==
    /\ aggPc = "returned" /\ Len(aggSteps) = 2
    /\ StepEntry(1) = AnnNoId
    /\ aggSteps[1].wins = 3 /\ aggSteps[1].losses = 1
    /\ StepEntry(2) = CyUser
    /\ aggSteps[2].wins = 0 /\ aggSteps[2].losses = 0

(***************************************************************************)
(* The returned list of a leaderboard call                                 *)
(***************************************************************************)
\* the standings the returned list was computed from, and every player of
\* them in the order of the default sort
StandingsAnalyzed ==
    FilteredStandings(fetchAllEventStandings(lbSurface, lbAllEvents, lbOutcomes))
FullSortedList ==
    PlayersOfMap(AggEvents(<<>>, StandingsAnalyzed, 1, Len(StandingsAnalyzed)),
                 0, DefaultSortBy, 2 * Len(StandingsAnalyzed))
\* the limit and the threshold the claim gives for the call
LimitAsked == IF lbLimit = NoNum THEN 20 ELSE lbLimit
EventsAsked == IF lbMinEvents = NoNum THEN 1 ELSE lbMinEvents

\* C23: the returned list has at most min(100, max(1, limit)) players
\* (limit 20 when none is given), every one of them has played at least
\* max(1, minEvents) events, and the list is the longest such prefix of the
\* players that qualify, in sorted order.
C23_LimitAndMinEvents ==
    (FanOutSettled /\ lbRet.kind = "result") =>
        LET cap == Min(100, Max(1, LimitAsked))
            qualified == SelectSeq(FullSortedList,
                             LAMBDA p : p.eventsPlayed >= Max(1, EventsAsked))
        IN  /\ Len(lbRet.players) <= cap
            /\ \A n \in DOMAIN lbRet.players :
                   lbRet.players[n].eventsPlayed >= Max(1, EventsAsked)
            /\ lbRet.players = SubSeq(qualified, 1, Min(cap, Len(qualified)))

\* 101 players qualified and limit 150 returned the first 100 of them
C23_Witness ==
    /\ FanOutSettled /\ lbRet.kind = "result"
    /\ lbLimit = 150 /\ Len(FullSortedList) = 101
    /\ Len(lbRet.players) = 100

\* without a limit the first 20 of more than 100 players were returned
C23_WitnessDefault ==
    /\ FanOutSettled /\ lbRet.kind = "result"
    /\ lbLimit = NoNum /\ Len(FullSortedList) > 100
    /\ Len(lbRet.players) = 20

\* limit 0 returned one player; minEvents 2 returned the one player of two
\* events although three players were on the standings
C23_WitnessOne ==
    /\ FanOutSettled /\ lbRet.kind = "result"
    /\ lbLimit = 0 /\ lbMinEvents = NoNum /\ Len(FullSortedList) = 3
    /\ Len(lbRet.players) = 1
C23_WitnessThreshold ==
    /\ FanOutSettled /\ lbRet.kind = "result"
    /\ lbLimit = NoNum /\ lbMinEvents = 2 /\ Len(FullSortedList) = 3
    /\ Len(lbRet.players) = 1 /\ lbRet.players[1].eventsPlayed = 2

(***************************************************************************)
(* The event listing of a leaderboard call                                 *)
(***************************************************************************)
\* the events listed once the first n fetched pages are in
RECURSIVE Accumulated(_)
Accumulated(n) ==
    IF n = 0 THEN <<>>
    ELSE Accumulated(n - 1) \o
             [k \in 1..lbFetched[n].n |-> (lbFetched[n].page - 1) * 100 + k]

\* the listing goes on after fetched page n: the page is full and upstream
\* counts more events than are listed with it
GoesOnAfter(n) ==
    lbFetched[n].n = 100 /\ lbFetched[n].total > Len(Accumulated(n))

\* the number of page requests made so far
PagesRequested ==
    Cardinality({n \in DOMAIN lbCalls : lbCalls[n] = SearchCall})

\* the largest total upstream reported on the fetched pages
LargestTotal ==
    IF lbFetched = <<>> THEN 0
    ELSE CHOOSE t \in {lbFetched[n].total : n \in DOMAIN lbFetched} :
             \A n \in DOMAIN lbFetched : lbFetched[n].total <= t

\* The listing asks for pages 1, 2, 3, ... in this order; it goes on after
\* a page exactly when the page holds 100 events and upstream counts more
\* events than are listed so far; the number of pages is bounded by the
\* reported total; the listed events are the events of the fetched pages,
\* page after page.
PagingInOrder ==
    /\ \A n \in DOMAIN lbFetched : lbFetched[n].page = n
    /\ lbPc = "awaitPage" =>
           lbPage = Len(lbFetched) + 1 /\ PagesRequested = lbPage
    /\ \A n \in DOMAIN lbFetched :
           GoesOnAfter(n) <=> PagesRequested > n
    /\ Len(lbFetched) <= 1 + LargestTotal \div 100
    /\ lbAllEvents = Accumulated(Len(lbFetched))

\* the call has left the loop of the listing
ListingLeft == lbPc \in {"awaitStandings", "returned", "rejected"}

\* C29: event discovery requests pages 1, 2, 3, ... in order and stops
\* after the first page that holds fewer than 100 events or completes the
\* total upstream reports; every event of every fetched page is in the
\* accumulated list, in page order; and with the totals upstream reports
\* bounded and every request settling, the loop is left.
C29_PagingInOrder == []PagingInOrder /\ <>ListingLeft

\* A full page and a short second one were listed, 102 events in all
C29_Witness ==
    /\ Len(lbFetched) = 2 /\ lbPc = "awaitStandings"
    /\ lbFetched[1].n = 100 /\ lbFetched[2].n = 2
    /\ Len(lbAllEvents) = 102 /\ lbAllEvents[102] = 102

\* a full page that completed the reported total ended the listing
C29_WitnessTotal ==
    /\ Len(lbFetched) = 1 /\ lbPc = "awaitStandings"
    /\ lbFetched[1].n = 100 /\ lbFetched[1].total = 100

(***************************************************************************)
(* Claims about fetchWithRetry (checked under SpecRetryFair).              *)
(***************************************************************************)
\* the attempts the call may make
AttemptBudget == IF rtMaxRetries = NoNum THEN 4 ELSE rtMaxRetries + 1

\* a 429, 502, 503 or 504 response, or a network or timeout error
Transient(outcome) ==
    \/ outcome.kind = "response" /\ outcome.status \in {429, 502, 503, 504}
    \/ outcome.kind = "error" /\ outcome.error \in {FetchFailed, Aborted}

RetrySettled == rtPc \in {"returned", "threw"}
LastAttempt == rtLog[Len(rtLog)]

\* No more than maxRetries + 1 fetches are made; every fetch but the last
\* ended in a transient failure; a fetch that ends otherwise, or that is
\* the last one allowed, settles the call at once, and a transient failure
\* with attempts left does not; the call settles with what its last fetch
\* settled with, returning a response and throwing an error.
RetryBounded ==
    /\ Len(rtLog) <= AttemptBudget
    /\ \A n \in DOMAIN rtLog : n < Len(rtLog) => Transient(rtLog[n])
    /\ rtLog # <<>> =>
           /\ (~Transient(LastAttempt) \/ Len(rtLog) = AttemptBudget) =>
                  RetrySettled
           /\ (Transient(LastAttempt) /\ Len(rtLog) < AttemptBudget) =>
                  ~RetrySettled
    /\ RetrySettled =>
           /\ rtLog # <<>> /\ rtRet = LastAttempt
           /\ rtPc = "returned" <=> LastAttempt.kind = "response"
    /\ ~RetrySettled => rtRet = NoOutcome

C27_WitnessAtOnce ==
    /\ rtMaxRetries = 2 /\ rtLog = <<Response(500)>>
    /\ rtPc = "returned" /\ rtRet = Response(500)

\* the last fetch allowed timed out and the abort error was thrown
C27_WitnessThrown ==
    /\ rtMaxRetries = 1 /\ Len(rtLog) = 2
    /\ rtPc = "threw" /\ rtRet = Thrown(Aborted)

(***************************************************************************)
(* Claims about expandStatusesForApi (checked under SpecStatuses).         *)
(***************************************************************************)
\* C28: the result is [upcoming, inProgress, past] when the input is empty
\* or contains "all", and otherwise the input statuses, unchanged and in
\* their order; "all" is never in the result.
C28_StatusesExpanded ==
    esPc = "returned" =>
        /\ IF esStatuses = <<>> \/ "all" \in {esStatuses[n] : n \in DOMAIN esStatuses}
           THEN esRet = <<"upcoming", "inProgress", "past">>
           ELSE esRet = esStatuses
        /\ \A n \in DOMAIN esRet : esRet[n] # "all"

\* "all" next to other statuses gave the three statuses
C28_Witness ==
    /\ esPc = "returned"
    /\ esStatuses = <<"past", "all", "cancelled">>
    /\ esRet = <<"upcoming", "inProgress", "past">>

\* statuses without "all" came back as given, repetitions included
C28_WitnessKept ==
    /\ esPc = "returned"
    /\ esStatuses = <<"past", "upcoming", "past">>
    /\ esRet = <<"past", "upcoming", "past">>

\* the empty input gave the three statuses
C28_WitnessEmpty ==
    /\ esPc = "returned" /\ esStatuses = <<>> /\ esRet = API_STATUSES

(***************************************************************************)
(* The claiming of indices in runWithBoundedConcurrency (checked under     *)
(* SpecRunnerFair).                                                        *)
(***************************************************************************)
\* the workers awaiting an operation
Awaiting == {w \in DOMAIN workers : workers[w].pc = "awaiting"}

\* The k-th operation started is the one on index k - 1, so no index is
\* claimed twice or skipped; each started and unsettled operation is
\* awaited by one worker and no worker awaits anything else; the promise
\* resolves only when every index was claimed and its operation settled.
ClaimedOnceInOrder ==
    /\ \A k \in DOMAIN calls : calls[k] = k - 1
    /\ \A v, w \in Awaiting : v # w => workers[v].i # workers[w].i
    /\ {workers[w].i : w \in Awaiting} = InFlightOps
    /\ promise = "resolved" =>
           Len(calls) = Len(items) /\ settled = Indices

\* C30: with width >= 1, under every interleaving each index is claimed by
\* exactly one worker, op is invoked once per item and the operations are
\* started in increasing index order; when every started operation
\* settles the promise resolves, and it resolves only after every item
\* has settled.
C30_ClaimedOnceAndResolves == []ClaimedOnceInOrder /\ <>(promise = "resolved")

\* Two workers shared three items, a later operation settling before an
\* earlier one, and the promise resolved.
C30_Witness ==
    /\ promise = "resolved" /\ caller = "direct"
    /\ Len(items) = 3 /\ concurrency = 2 /\ outOfOrder
    /\ calls = <<0, 1, 2>> /\ settled = {0, 1, 2}

(***************************************************************************)
(* The backoff of fetchWithRetry (checked under SpecRetry).                *)
(***************************************************************************)
\* the base delay of the call
BaseDelay == IF rtRetryDelayMs = NoNum THEN 1000 ELSE rtRetryDelayMs

\* C36: the wait that follows failed attempt k (k = 0, 1, 2, ...) is
\* retryDelayMs * 2^k, 1000, 2000, 4000 ms by default, each wait being
\* double the one before it; there is one wait per failed attempt that is
\* retried and none after the final attempt or after an outcome that is
\* not retried.
C36_ExponentialBackoff ==
    /\ rtSleeps # <<>> => rtSleeps[1] = BaseDelay
    /\ \A k \in DOMAIN rtSleeps : k > 1 => rtSleeps[k] = 2 * rtSleeps[k - 1]
    /\ rtRetryDelayMs = NoNum =>
           rtSleeps = SubSeq(<<1000, 2000, 4000>>, 1, Len(rtSleeps))
    /\ \A k \in DOMAIN rtSleeps : Transient(rtLog[k])
    /\ Len(rtSleeps) =
           IF rtPc \in {"returned", "threw"} THEN Len(rtLog) - 1
           ELSE Len(rtLog)
    /\ Len(rtSleeps) <= AttemptBudget - 1

\* With the default options the call slept 1000, 2000 and 4000 ms and its
\* fourth fetch, again answered 503, ended it without a further wait.
C36_Witness ==
    /\ rtMaxRetries = NoNum /\ rtRetryDelayMs = NoNum
    /\ rtSleeps = <<1000, 2000, 4000>>
    /\ Len(rtLog) = 4 /\ rtLog[4] = Response(503) /\ rtPc = "returned"

\* a given delay of 250 ms gave waits of 250 and 500 ms
C36_WitnessGiven ==
    /\ rtRetryDelayMs = 250 /\ rtSleeps = <<250, 500>> /\ rtPc = "awaitFetch"

\* C37: while attempts remain, a response with a 5xx status (500
\* included) or with status 429 leads to another attempt and is not
\* returned to the caller.
C37_RetriesEvery5xx ==
    (rtLog # <<>> /\ LastAttempt.kind = "response"
        /\ (LastAttempt.status = 429
               \/ (LastAttempt.status >= 500 /\ LastAttempt.status <= 599))
        /\ Len(rtLog) < AttemptBudget)
      => ~RetrySettled

(***************************************************************************)
(* Events played (checked under SpecAggregate).                            *)
(***************************************************************************)
\* the events whose standings hold an entry of the key
EventsWith(key) == {s[1] : s \in SlotsOf(key)}

\* C40: each player's eventsPlayed is the number of contributing events
\* whose standings contain the player's key, so it never exceeds the number
\* of events analyzed, and the player's placements list has eventsPlayed
\* elements.
C40_EventsPlayedCountsEvents ==
    aggPc = "returned" =>
        /\ \A n \in DOMAIN aggMap :
               /\ aggMap[n].eventsPlayed = Cardinality(EventsWith(aggMap[n].key))
               /\ Len(aggMap[n].placements) = aggMap[n].eventsPlayed
        /\ \A n \in DOMAIN aggPlayers :
               /\ aggPlayers[n].eventsPlayed <= Len(eventStandings)
               /\ Len(aggPlayers[n].placements) = aggPlayers[n].eventsPlayed

(***************************************************************************)
(* What a set removes from the TTL cache (checked under SpecCache).        *)
(***************************************************************************)
\* the keys of the entries of the store that have not expired now
Unexpired(s) == {s[n].key : n \in {m \in DOMAIN s : now <= s[m].expiresAt}}

\* C31: right after a set no entry of the store had expired when the set
\* was made; an unexpired entry of another key is gone after the set only
\* if the cache is bounded, the key set was not among the unexpired entries
\* and these were maxSize in number; a set on a key that is present and
\* unexpired removes no other entry.
C31_SetRemovals ==
    [][lastOp'.op = "set" =>
          LET k == lastOp'.key
              gone == (Unexpired(store) \ {k}) \ KeysOf(store')
          IN  /\ KeysOf(store') = Unexpired(store')
              /\ gone # {} =>
                     /\ maxSize > 0
                     /\ k \notin Unexpired(store)
                     /\ Cardinality(Unexpired(store)) = maxSize
              /\ k \in Unexpired(store) => gone = {}
              /\ \A q \in Unexpired(store) \ ({k} \cup gone) :
                     Entry(store', q) = Entry(store, q)]_vars

\* After a set on a new key the store of a cache of size 1 holds that key
\* alone: the key of an expired entry and the key of an entry that was
\* evicted for capacity and would still be unexpired are both gone.
C31_Witness ==
    /\ lastOp.op = "set" /\ maxSize = 1 /\ KeysOf(store) = {lastOp.key}
    /\ \E q \in Keys \ KeysOf(store) :
          lastSet[q] # NoSet /\ now <= lastSet[q].expiry /\ q \in capEvicted
    /\ \E q \in Keys \ KeysOf(store) :
          lastSet[q] # NoSet /\ now > lastSet[q].expiry /\ q \notin capEvicted

(***************************************************************************)
(* The cached accessors (checked under SpecAccessors).                     *)
(***************************************************************************)
\* call c is made in this step, or settles in it
MadeNow(c) == acCalls[c].pc = "idle" /\ acCalls'[c].pc # "idle"
SettlesNow(c) ==
    /\ acCalls[c].pc \notin {"returned", "threw"}
    /\ acCalls'[c].pc \in {"returned", "threw"}
\* the request call c awaited settles in this step
FetchSettlesNow(c) ==
    /\ acCalls[c].pc \in {"awaitDetails", "awaitPaginated", "awaitUnpaginated"}
    /\ acCalls'[c].pc # acCalls[c].pc
\* the store s holds an entry for k that has not expired at time t
Cached(s, k, t) == \E n \in DOMAIN s : s[n].key = k /\ t <= s[n].expiresAt
\* a completed event: display status past, or lifecycle status completed
\* or past
Completed(event) ==
    \/ event.display_status \in {"past", "Past"}
    \/ event.event_lifecycle_status \in {"completed", "past"}
\* the requests call c has issued
RequestsOf(c) == SelectSeq(acRequests, LAMBDA r : r.call = c)

\* C32: a fetchEventDetails whose request succeeds stores the event under
\* the id with a TTL of 7 days when the event is completed and of 60
\* seconds otherwise, and one whose request fails stores nothing; an entry
\* leaves the cache only expired or evicted for capacity by the set of
\* another id, and keeps its event until the next successful fetch of its
\* id; a call made while the id has an unexpired entry issues no request
\* and returns the entry's event.
C32_DetailsCachedUntilExpiry ==
    [][acFn = "fetchEventDetails" =>
          /\ \A c \in Calls :
                FetchSettlesNow(c) =>
                    LET key == String(acCalls[c].id)
                    IN  IF acCalls'[c].pc = "returned"
                        THEN LET event == acCalls'[c].ret[1]
                             IN  /\ Cached(acDetails', key, acNow)
                                 /\ Entry(acDetails', key).value = event
                                 /\ Entry(acDetails', key).expiresAt =
                                        acNow + (IF Completed(event)
                                                 THEN 7 * 24 * 60 * 60 * 1000
                                                 ELSE 60 * 1000)
                        ELSE acDetails' = acDetails
          /\ \A k \in KeysOf(acDetails) :
                IF Has(acDetails', k)
                THEN \/ Entry(acDetails', k).value = Entry(acDetails, k).value
                     \/ \E c \in Calls :
                           /\ FetchSettlesNow(c) /\ acCalls'[c].pc = "returned"
                           /\ String(acCalls[c].id) = k
                ELSE \/ acNow > Entry(acDetails, k).expiresAt
                     \/ \E c \in Calls :
                           /\ FetchSettlesNow(c) /\ acCalls'[c].pc = "returned"
                           /\ String(acCalls[c].id) # k
                           /\ ~Has(acDetails, String(acCalls[c].id))
                           /\ Len(acDetails) >= maxSize
          /\ \A c \in Calls :
                (MadeNow(c) /\ Cached(acDetails, String(acCalls'[c].id), acNow))
                    => /\ acRequests' = acRequests
                       /\ acCalls'[c].pc = "returned"
                       /\ acCalls'[c].ret =
                              <<Entry(acDetails,
                                      String(acCalls'[c].id)).value>>]_vars

\* A completed event was fetched and stored; seven days later a second call
\* for the same id returned that event without a request of its own.
C32_Witness ==
    /\ acFn = "fetchEventDetails"
    /\ acCalls[1].pc = "returned" /\ acCalls[2].pc = "returned"
    /\ acCalls[1].id = acCalls[2].id
    /\ acCalls[2].ret = acCalls[1].ret
    /\ acCalls[1].ret[1].event_lifecycle_status = "completed"
    /\ Len(RequestsOf(1)) = 1 /\ Len(RequestsOf(2)) = 0
    /\ acLastSet.at = 0 /\ acNow = CACHE_TTL_PAST_MS


\* the store holds one entry per key, and no more than maxSize entries
OneEntryPerKey(s) ==
    /\ \A m, n \in DOMAIN s : s[m].key = s[n].key => m = n
    /\ Len(s) <= maxSize
\* the sets made on a key of a cache, in order
SetsOn(cache, k) ==
    SelectSeq(acSets, LAMBDA w : w.cache = cache /\ w.key = k)
\* every entry of the store holds what the latest set on its key wrote,
\* which is what the call that made the set returned
LatestSetWins(cache, s) ==
    \A n \in DOMAIN s :
        LET sets == SetsOn(cache, s[n].key)
        IN  /\ sets # <<>>
            /\ acCalls[sets[Len(sets)].call].pc = "returned"
            /\ s[n].value = acCalls[sets[Len(sets)].call].ret[1]

\* C33: a call of fetchEventDetails or fetchTournamentRoundStandings that
\* is awaiting a request is awaiting a request of its own, whatever other
\* calls are in flight for the same key; and however the calls interleave,
\* each cache holds one entry per key, at most maxSize entries, and under
\* each key the value of the latest set on it.
C33_NoCoalescing ==
    acFn \in {"fetchEventDetails", "fetchTournamentRoundStandings"} =>
        /\ \A c \in Calls :
              /\ acCalls[c].pc = "awaitDetails" =>
                     RequestsOf(c) = <<Request(c, <<"events", acCalls[c].id>>)>>
              /\ acCalls[c].pc = "awaitPaginated" =>
                     /\ Len(RequestsOf(c)) = 1
                     /\ RequestsOf(c)[1].url[1] = "paginated"
              /\ acCalls[c].pc = "awaitUnpaginated" =>
                     /\ Len(RequestsOf(c)) = 2
                     /\ RequestsOf(c)[2].url[1] = "unpaginated"
        /\ OneEntryPerKey(acDetails) /\ OneEntryPerKey(acPaginated)
        /\ LatestSetWins("eventDetails", acDetails)
        /\ LatestSetWins("paginated", acPaginated)

\* Two calls for the same event were in flight together: each issued its
\* request, the second call's fetch settled first and the first call's
\* after it with another version of the event, which is the one cached.
C33_Witness ==
    /\ acFn = "fetchEventDetails" /\ acNow = 0
    /\ acCalls[1].pc = "returned" /\ acCalls[2].pc = "returned"
    /\ acCalls[1].id = acCalls[2].id
    /\ acCalls[1].ret # acCalls[2].ret
    /\ Len(RequestsOf(1)) = 1 /\ Len(RequestsOf(2)) = 1
    /\ Len(acSets) = 2 /\ acSets[1].call = 2 /\ acSets[2].call = 1
    /\ Len(acDetails) = 1 /\ acDetails[1].value = acCalls[1].ret[1]

\* The same for two calls of fetchTournamentRoundStandings for one page.
C33_WitnessPage ==
    /\ acFn = "fetchTournamentRoundStandings" /\ acNow = 0
    /\ acCalls[1].pc = "returned" /\ acCalls[2].pc = "returned"
    /\ acCalls[1].page = acCalls[2].page
    /\ acCalls[1].ret # acCalls[2].ret
    /\ Len(RequestsOf(1)) >= 1 /\ Len(RequestsOf(2)) >= 1
    /\ Len(acSets) = 2 /\ acSets[1].call = 2 /\ acSets[2].call = 1
    /\ Len(acPaginated) = 1 /\ acPaginated[1].value = acCalls[1].ret[1]


\* the cache key of the page call c asks for, and the page and size in it
PageAsked(c) == IF acCalls[c].page < 1 THEN 1 ELSE acCalls[c].page
SizeAsked(c) == IF acCalls[c].pageSize < 1 THEN 1 ELSE acCalls[c].pageSize
PageKeyAsked(c) ==
    String(acCalls[c].id) \o "-" \o String(PageAsked(c))
        \o "-" \o String(SizeAsked(c))
\* the standings response is stored under the key of call c with the TTL
\* of the call: 7 days for a past event, 60 seconds otherwise
StoredForCall(c, response) ==
    /\ Has(acPaginated', PageKeyAsked(c))
    /\ Entry(acPaginated', PageKeyAsked(c)).value = response
    /\ Entry(acPaginated', PageKeyAsked(c)).expiresAt =
           acNow + (IF acCalls[c].isPastEvent THEN 7 * 24 * 60 * 60 * 1000
                    ELSE 60 * 1000)
\* page `page` of size `size` of a list of n entries numbered from 1
PageOfList(n, page, size) ==
    [i \in 1..Max(0, Min(size, n - (page - 1) * size)) |->
        (page - 1) * size + i]

\* C34: when the paginated request of fetchTournamentRoundStandings fails,
\* the call throws and leaves the standings cache as it was; a response
\* with no results and total 0 makes the call ask the unpaginated endpoint,
\* and if that lists entries the call returns and caches the requested page
\* of the list; if the unpaginated request fails or lists nothing, the call
\* returns the empty paginated response and caches it; whatever the call
\* caches expires 7 days later for a past event.
C34_PageFallback ==
    [][acFn = "fetchTournamentRoundStandings" =>
          \A c \in Calls :
             /\ (FetchSettlesNow(c) /\ acCalls[c].pc = "awaitPaginated") =>
                   LET reply == acCalls'[c].reply
                   IN  IF reply[1] # "ok"
                       THEN /\ acCalls'[c].pc = "threw"
                            /\ acPaginated' = acPaginated
                            /\ acSets' = acSets
                       ELSE IF acCalls'[c].pc = "awaitUnpaginated"
                       THEN /\ reply[2] = 0
                            /\ acCalls'[c].held[1].results = <<>>
                            /\ acRequests' =
                                  Append(acRequests,
                                         Request(c, <<"unpaginated",
                                                      acCalls[c].id>>))
                            /\ acPaginated' = acPaginated
                       ELSE /\ acCalls'[c].pc = "returned"
                            /\ ~(/\ acCalls'[c].ret[1].results = <<>>
                                 /\ acCalls'[c].ret[1].total = 0)
                            /\ Len(acCalls'[c].ret[1].results) = reply[2]
                            /\ StoredForCall(c, acCalls'[c].ret[1])
             /\ (FetchSettlesNow(c) /\ acCalls[c].pc = "awaitUnpaginated") =>
                   LET reply == acCalls'[c].reply
                       response == acCalls'[c].ret[1]
                   IN  /\ acCalls'[c].pc = "returned"
                       /\ StoredForCall(c, response)
                       /\ IF reply[1] = "ok" /\ reply[2] > 0
                          THEN /\ response.total = reply[2]
                               /\ response.current_page_number = PageAsked(c)
                               /\ response.page_size = SizeAsked(c)
                               /\ response.results =
                                      PageOfList(reply[2], PageAsked(c),
                                                 SizeAsked(c))
                          ELSE /\ response = acCalls[c].held[1]
                               /\ response.results = <<>>]_vars

\* A call for page 2 of a past event's round got an empty page with total
\* 0, the unpaginated endpoint listed three entries, and the call returned
\* the third and cached that page for seven days.
C34_Witness ==
    /\ acFn = "fetchTournamentRoundStandings"
    /\ acCalls[1].pc = "returned" /\ acCalls[1].isPastEvent
    /\ acCalls[1].page = 2 /\ acCalls[1].pageSize = 2
    /\ Len(RequestsOf(1)) = 2 /\ acCalls[1].reply = <<"ok", 3>>
    /\ acCalls[1].ret[1].results = <<3>>
    /\ Len(acPaginated) = 1 /\ acPaginated[1].key = "7-2-2"
    /\ acPaginated[1].value = acCalls[1].ret[1]
    /\ acPaginated[1].expiresAt = acLastSet.at + CACHE_TTL_PAST_MS

\* The unpaginated request threw after an empty page: the call returned
\* the empty response and cached it; and a paginated request failed: the
\* call threw and cached nothing.
C34_WitnessEmpty ==
    /\ acFn = "fetchTournamentRoundStandings"
    /\ acCalls[1].pc = "returned" /\ acCalls[1].reply = <<"threw", 0>>
    /\ acCalls[1].ret[1].results = <<>> /\ Len(acPaginated) = 1
    /\ acCalls[2].pc = "threw" /\ Len(RequestsOf(2)) = 1
    /\ acSets = <<SetOf(1, "paginated", "7-1-2")>>


\* the page response a call of fetchAllRoundStandings took in this step:
\* the one its call of fetchTournamentRoundStandings just cached
PageTaken == Entry(acPaginated', PageKeyAsked(1)).value

\* C35: fetchAllRoundStandings asks for pages 1, 2, ... of size 100 in
\* order and never for more than 50; after a page it asks for the next one
\* exactly when the page named a next page and held 100 results (and was
\* not the 50th), and otherwise returns; what it returns is the fetched
\* pages' results concatenated in order, which it writes to its cache only
\* when the list is not empty; when a page fails the call throws and its
\* cache holds nothing.
C35_AllPagesInOrder ==
    [][acFn = "fetchAllRoundStandings" =>
          /\ Len(acPageCalls') <= 50
          /\ acPageCalls' = [n \in 1..Len(acPageCalls') |->
                                [call |-> 1, page |-> n, pageSize |-> 100]]
          /\ Len(acRequests') >= Len(acPageCalls')
          /\ (FetchSettlesNow(1) /\ acSets' # acSets) =>
                LET n == Len(acPageCalls)
                    goesOn == /\ PageTaken.next_page_number # NoNum
                              /\ Len(PageTaken.results) = 100
                              /\ n < 50
                IN  /\ acCalls'[1].all = acCalls[1].all \o PageTaken.results
                    /\ IF goesOn
                       THEN /\ acCalls'[1].pc = "awaitPaginated"
                            /\ Len(acPageCalls') = n + 1
                            /\ acFull' = acFull
                       ELSE /\ acCalls'[1].pc = "returned"
                            /\ acCalls'[1].ret = <<acCalls'[1].all>>
                            /\ acPageCalls' = acPageCalls
                            /\ IF acCalls'[1].all = <<>>
                               THEN acFull' = acFull
                               ELSE /\ Len(acFull') = 1
                                    /\ acFull'[1].key = String(acCalls[1].id)
                                    /\ acFull'[1].value = acCalls'[1].all
          /\ acCalls'[1].pc = "threw" =>
                /\ acCalls'[1].ret = <<>>
                /\ acFull' = <<>>
                /\ \A n \in DOMAIN acSets' : acSets'[n].cache # "full"
          /\ acCalls'[1].pc # "returned" => acFull' = <<>>]_vars

\* Fifty full pages each named a next page: the call stopped after the
\* fiftieth and returned the 5000 entries in order.
C35_Witness ==
    /\ acFn = "fetchAllRoundStandings"
    /\ acCalls[1].pc = "returned" /\ acCalls[1].hasMore
    /\ Len(acPageCalls) = 50 /\ acPageCalls[50].page = 50
    /\ acCalls[1].ret[1] = [i \in 1..5000 |-> i]
    /\ acFull # <<>> /\ acFull[1].value = acCalls[1].ret[1]

\* The first page came back empty and the unpaginated endpoint held
\* nothing either: the call returned the empty list and cached nothing.
C35_WitnessEmpty ==
    /\ acFn = "fetchAllRoundStandings"
    /\ acCalls[1].pc = "returned" /\ acCalls[1].ret = <<(<<>>)>>
    /\ Len(acPageCalls) = 1 /\ Len(acRequests) = 2
    /\ acFull = <<>> /\ acPaginated # <<>>


(***************************************************************************)
(* getEventStandings of both copies (checked under SpecEventStandings).    *)
(***************************************************************************)
\* the request for the event's details has failed
DetailsHaveFailed == gesDetails \in {"notOk", "threw"}
\* fetchAllEventStandings of the same copy, over three events of which the
\* second ended as this call did and the others resolved with standings,
\* returns the standings of the first and the third
LeftOutByFetchAll ==
    LET ended == [res |-> IF gesPc = "threw" THEN "threw" ELSE "error",
                  phases |-> NoPhases]
    IN  fetchAllEventStandings(gesSurface, <<1, 2, 3>>,
                               <<DefaultOutcome, ended, DefaultOutcome>>)
            = <<EventOp(1, DefaultOutcome), EventOp(3, DefaultOutcome)>>

\* C38 as stated: when the request for the event's details fails, the core
\* getEventStandings throws and the bot's returns {error}, no round's
\* standings are requested, and fetchAllEventStandings leaves that event
\* out and returns the standings of the other events.
C38_DetailsFailureAsStated ==
    DetailsHaveFailed =>
        /\ fetched = <<>> /\ responses = <<>>
        /\ gesSurface = "core" => gesPc = "threw"
        /\ gesSurface = "bot" => (gesPc = "returned" /\ gesRet = ErrorSlot)
        /\ LeftOutByFetchAll

\* C38, amended: when the request for the event's details fails, the core
\* getEventStandings throws; the bot's returns {error} when upstream
\* answered with a status that is not OK and throws when the request itself
\* threw; in every case no round's standings are requested, and
\* fetchAllEventStandings leaves that event out and returns the standings
\* of the other events.
C38_DetailsFailure ==
    DetailsHaveFailed =>
        /\ fetched = <<>> /\ responses = <<>>
        /\ IF gesSurface = "bot" /\ gesDetails = "notOk"
           THEN gesPc = "returned" /\ gesRet = ErrorSlot
           ELSE gesPc = "threw" /\ gesRet = NoReturn
        /\ LeftOutByFetchAll

\* The bot's call for an event with rounds threw because the request for
\* the details threw.
C38_Witness ==
    /\ gesSurface = "bot" /\ gesDetails = "threw" /\ gesPc = "threw"
    /\ Len(tournament_phases) = 2 /\ fetched = <<>>

\* The bot's call returned {error} for details that came back not OK, and
\* the core call threw.
C38_WitnessError ==
    /\ gesSurface = "bot" /\ gesDetails = "notOk" /\ gesRet = ErrorSlot
    /\ Len(tournament_phases) = 2 /\ fetched = <<>>
C38_WitnessCore ==
    /\ gesSurface = "core" /\ gesDetails = "notOk" /\ gesPc = "threw"
    /\ Len(tournament_phases) = 2 /\ fetched = <<>>

\* the ids of a list of rounds, in order
IdsOf(rounds) == [n \in DOMAIN rounds |-> rounds[n].id]
\* s is the beginning of t
IsPrefixOf(s, t) == Len(s) <= Len(t) /\ s = SubSeq(t, 1, Len(s))

\* C39: for every event both copies of getEventStandings try the rounds in
\* the same order, a later phase's round before an earlier phase's round
\* of equal authority, and return the standings of the same round: the
\* rounds a call has requested are the beginning of the order of either
\* copy, and the standings it returned are those of the round requested
\* last.
C39_SameRoundSelection ==
    gesDetails = "ok" =>
        /\ IdsOf(RoundsToTry("core", tournament_phases)) =
               IdsOf(RoundsToTry("bot", tournament_phases))
        /\ IsPrefixOf(fetched, IdsOf(RoundsToTry("core", tournament_phases)))
        /\ IsPrefixOf(fetched, IdsOf(RoundsToTry("bot", tournament_phases)))
        /\ (gesPc = "returned" /\ gesRet.kind = "value") =>
               gesRet.standings = Standings(fetched[Len(fetched)])

====
